---------------------------- MODULE Spec2Model ----------------------------
(***************************************************************************)
(* A model of rexturl's URL decomposition engine (src/src/url.rs).         *)
(*                                                                         *)
(* Text is a sequence of byte values (0..255).  Offsets are 0-based as in  *)
(* the source; At(bytes, i) reads the byte at offset i.  A 32-bit range    *)
(* word is kept as its two 16-bit halves <<upper, lower>>.  Option values  *)
(* are None == <<>> and Some(x) == <<x>>.                                  *)
(***************************************************************************)
EXTENDS Integers, Sequences, FiniteSets, TLC

VARIABLES
    input,    \* the text handed to Url::parse
    parts,    \* how the caller assembled that text; the parser never reads it
    pc,       \* the phase of parse_vectorized about to run
    pos,      \* the parser's cursor
    ranges,   \* the Range Table
    flags,    \* the presence flags
    result,   \* "" while parsing, then "Ok" or the error's name
    locals,   \* local variables a scanning loop keeps between its turns
    call,     \* the function a caller of the library applies, with its arguments
    ret,      \* None until that function has returned, then Some(its value)
    slots,    \* process_urls_parallel: for each URL, the job of the worker on it
    reader,   \* process_urls_streaming: the lines not yet read
    results,  \* process_urls_streaming: the entries collected so far
    stdout,   \* the bytes written to standard output
    stderr    \* the lines written to standard error

\* what the batch functions of processor.rs work on
batchVars == <<slots, reader, results, stdout, stderr>>

\* what a caller of another function than Url::parse holds
callVars == <<call, ret, batchVars>>

vars == <<input, parts, locals, pc, pos, ranges, flags, result, call, ret,
          slots, reader, results, stdout, stderr>>

---------------------------------------------------------------------------
(* Bytes and bit arithmetic                                                *)

COLON == 58
SLASH == 47
QUESTION == 63
HASH == 35
AT_SIGN == 64
LBRACKET == 91
RBRACKET == 93
ZERO == 48
LOWER_A == 97

At(bytes, i) == bytes[i + 1]

\* bytes[from..to), 0-based and half-open like a Rust slice
Slice(bytes, from, to) == SubSeq(bytes, from + 1, to)

None == <<>>
Some(x) == <<x>>

Min(a, b) == IF a <= b THEN a ELSE b

\* 2^n for n in 0..16
Pow2(n) == <<1, 2, 4, 8, 16, 32, 64, 128, 256, 512, 1024, 2048, 4096, 8192,
             16384, 32768, 65536>>[n + 1]

\* bit n of the non-negative integer x
Bit(x, n) == (x \div Pow2(n)) % 2

RECURSIVE BitOr8From(_, _, _)
BitOr8From(a, b, n) ==
    IF n = 8 THEN 0
    ELSE (IF Bit(a, n) = 1 \/ Bit(b, n) = 1 THEN Pow2(n) ELSE 0)
         + BitOr8From(a, b, n + 1)

\* a | b on u8
BitOr8(a, b) == BitOr8From(a, b, 0)

RECURSIVE BitXor8From(_, _, _)
BitXor8From(a, b, n) ==
    IF n = 8 THEN 0
    ELSE (IF Bit(a, n) # Bit(b, n) THEN Pow2(n) ELSE 0)
         + BitXor8From(a, b, n + 1)

\* a ^ b on u8
BitXor8(a, b) == BitXor8From(a, b, 0)

\* a ^ b for every pair of bytes, computed once
XorTable == [a \in 0..255 |-> [b \in 0..255 |-> BitXor8(a, b)]]

\* a.wrapping_sub(b) on u8
WrappingSub8(a, b) == (a - b + 256) % 256

---------------------------------------------------------------------------
(* Range: two 16-bit fields packed in one 32-bit word                      *)

\* ((start as u32) << 16) | (end as u32 & 0xFFFF): the upper half keeps
\* start modulo 2^16, the lower half keeps end modulo 2^16
pack(start, end) == <<start % 65536, end % 65536>>

\* debug_assertions: whether the build keeps debug_assert! (debug and test
\* profiles do, the release profile does not); with it an offset above
\* 0xFFFF aborts with "Range overflow"
Range_new(start, end, debug_assertions) ==
    IF debug_assertions /\ ~(start <= 65535 /\ end <= 65535)
    THEN [err |-> "Panic", val |-> <<0, 0>>]
    ELSE [err |-> "", val |-> pack(start, end)]

Range_start(r) == r[1]

Range_end(r) == r[2]

\* is_empty with > for >=
Range_is_empty_strict(r) == Range_start(r) > Range_end(r)

Range_is_empty(r) == Range_start(r) >= Range_end(r)

Range_len(r) == IF Range_is_empty(r) THEN 0 ELSE Range_end(r) - Range_start(r)

SCHEME_IDX == 0
USERNAME_IDX == 1
PASSWORD_IDX == 2
HOST_IDX == 3
PORT_IDX == 4
PATH_IDX == 5
QUERY_IDX == 6
FRAGMENT_IDX == 7

HAS_USERNAME == 1
HAS_PASSWORD == 2
HAS_PORT == 4
HAS_QUERY == 8
HAS_FRAGMENT == 16
IS_IPV6 == 32

\* ranges: [0; 8], every word zero
EmptyRanges == [i \in 0..7 |-> <<0, 0>>]

get_range(rs, idx) == rs[idx]

\* set_range with an end one past the end it is given
set_range_one_past(rs, idx, start, end) ==
    [rs EXCEPT ![idx] = pack(start, end + 1)]

\* set_range packs the word itself, without Range::new and its assertion
set_range(rs, idx, start, end) == [rs EXCEPT ![idx] = pack(start, end)]

\* self.flags & flag != 0, for a single-bit flag
has_flag(fl, flag) == (fl \div flag) % 2 = 1

\* self.flags |= flag, for a single-bit flag
set_flag(fl, flag) == IF has_flag(fl, flag) THEN fl ELSE fl + flag

---------------------------------------------------------------------------
(* CharClass                                                               *)

\* the eight 32-bit words of the table, each as <<upper 16 bits, lower 16 bits>>
SCHEME_BITS ==
    << <<1023, 0>>,        \* 0x03FF_0000
       <<34815, 65534>>,   \* 0x87FF_FFFE
       <<2047, 65534>>,    \* 0x07FF_FFFE
       <<0, 0>>, <<0, 0>>, <<0, 0>>, <<0, 0>>, <<0, 0>> >>

\* (word >> bit_idx) & 1
WordBit(word, bit_idx) ==
    IF bit_idx < 16 THEN Bit(word[2], bit_idx) ELSE Bit(word[1], bit_idx - 16)

is_scheme_char(b) ==
    LET word_idx == b \div 32
        bit_idx  == b % 32
    IN  IF word_idx < 8 THEN WordBit(SCHEME_BITS[word_idx + 1], bit_idx) # 0
        ELSE FALSE

is_digit(b) == WrappingSub8(b, ZERO) <= 9

is_ascii_alpha(b) == WrappingSub8(BitOr8(b, 32), LOWER_A) <= 25

RECURSIVE position_from(_, _, _)
position_from(haystack, needle, i) ==
    IF i >= Len(haystack) THEN None
    ELSE IF At(haystack, i) = needle THEN Some(i)
    ELSE position_from(haystack, needle, i + 1)

\* haystack.iter().position(|&b| b == needle)
find_byte_scalar(haystack, needle) == position_from(haystack, needle, 0)

\* _mm256_movemask_epi8(_mm256_cmpeq_epi8(chunk, needle_vec)): the set of
\* lanes (bit numbers) of the 32-byte chunk at offset that equal the needle
movemask(haystack, offset, needle) ==
    {i \in 0..31 : At(haystack, offset + i) = needle}

\* mask.trailing_zeros(): the lowest set bit
trailing_zeros(mask) == CHOOSE i \in mask : \A j \in mask : i <= j

\* find_byte_simd_loop returning the remainder's match without its offset
RECURSIVE find_byte_simd_loop_remainder_from_zero(_, _, _)
find_byte_simd_loop_remainder_from_zero(haystack, needle, offset) ==
    IF offset + 32 <= Len(haystack)
    THEN LET mask == movemask(haystack, offset, needle)
         IN  IF mask # {} THEN Some(offset + trailing_zeros(mask))
             ELSE find_byte_simd_loop_remainder_from_zero(haystack, needle,
                                                          offset + 32)
    ELSE find_byte_scalar(Slice(haystack, offset, Len(haystack)), needle)

\* the loop over the whole 32-byte chunks from offset on returns at the first
\* chunk whose mask is not zero; when there is none, the bytes after the last
\* whole chunk are searched one by one
find_byte_simd_loop(haystack, needle, offset) ==
    LET chunks == IF offset + 32 <= Len(haystack)
                  THEN (Len(haystack) - offset) \div 32 ELSE 0
        hitting == {k \in 0..(chunks - 1) :
                        movemask(haystack, offset + 32 * k, needle) # {}}
        rest == find_byte_scalar(
                    Slice(haystack, offset + 32 * chunks, Len(haystack)), needle)
    IN  IF hitting # {}
        THEN Some(offset + 32 * trailing_zeros(hitting)
                  + trailing_zeros(movemask(haystack,
                                            offset + 32 * trailing_zeros(hitting),
                                            needle)))
        ELSE IF rest = None THEN None
        ELSE Some(offset + 32 * chunks + rest[1])

find_byte_simd(haystack, needle) ==
    IF Len(haystack) < 32 THEN find_byte_scalar(haystack, needle)
    ELSE find_byte_simd_loop(haystack, needle, 0)

\* is_x86_feature_detected!("avx2") selects the implementation
find_byte_on(avx2, haystack, needle) ==
    IF avx2 THEN find_byte_simd(haystack, needle)
    ELSE find_byte_scalar(haystack, needle)

find_byte(haystack, needle) == find_byte_on(TRUE, haystack, needle)

---------------------------------------------------------------------------
(* Word-parallel byte tests.  A word read by read_unaligned is the         *)
(* sequence of its bytes, lowest address (least significant) first.        *)

\* x.wrapping_sub(0x0101...01) & !x & 0x8080...80, byte by byte from the lowest:
\* the subtraction borrows upwards, and bit 7 of a byte survives when it is
\* set in the difference and clear in x
RECURSIVE zero_byte_mask_from(_, _, _)
zero_byte_mask_from(xs, i, borrow) ==
    IF i > Len(xs) THEN <<>>
    ELSE LET d == xs[i] - 1 - borrow
             low == (d + 256) % 256
         IN  <<IF low >= 128 /\ xs[i] < 128 THEN 128 ELSE 0>>
             \o zero_byte_mask_from(xs, i + 1, IF d < 0 THEN 1 ELSE 0)

zero_byte_mask(xs) == zero_byte_mask_from(xs, 1, 0)

\* word ^ (target repeated in every byte)
xor_repeated(word, target) == [i \in 1..Len(word) |-> XorTable[word[i]][target]]

\* the 128-bit mask, as its 16 bytes
create_char_mask_128(word, target) == zero_byte_mask(xor_repeated(word, target))

\* mask != 0
MaskNonZero(mask) == \E i \in 1..Len(mask) : mask[i] # 0

\* a | b | c on masks
MaskOr3(a, b, c) ==
    [i \in 1..Len(a) |-> IF a[i] # 0 \/ b[i] # 0 \/ c[i] # 0 THEN 128 ELSE 0]

Ok(v) == [err |-> "", val |-> v]
Err(e) == [err |-> e, val |-> 0]

---------------------------------------------------------------------------
(* Scheme                                                                  *)

\* for i in 0..8 { if bytes[pos + i] == b':' { return Ok(pos + i) } }
first_colon_in_word(bytes, at) ==
    LET hits == {i \in 0..7 : At(bytes, at + i) = COLON}
    IN  IF hits = {} THEN None ELSE Some(at + trailing_zeros(hits))

\* scan_scheme_tail taking the end of the input for the scheme's end
RECURSIVE scan_scheme_tail_end_as_colon(_, _)
scan_scheme_tail_end_as_colon(bytes, at) ==
    IF at < Len(bytes)
    THEN IF At(bytes, at) = COLON THEN Ok(at)
         ELSE IF ~is_scheme_char(At(bytes, at)) THEN Err("InvalidScheme")
         ELSE scan_scheme_tail_end_as_colon(bytes, at + 1)
    ELSE Ok(at)

RECURSIVE scan_scheme_tail(_, _)
scan_scheme_tail(bytes, at) ==
    IF at < Len(bytes)
    THEN IF At(bytes, at) = COLON THEN Ok(at)
         ELSE IF ~is_scheme_char(At(bytes, at)) THEN Err("InvalidScheme")
         ELSE scan_scheme_tail(bytes, at + 1)
    ELSE Err("InvalidScheme")

RECURSIVE scan_scheme_words(_, _)
scan_scheme_words(bytes, at) ==
    IF at + 8 <= Len(bytes)
    THEN LET word == Slice(bytes, at, at + 8)
             has_colon == zero_byte_mask(xor_repeated(word, COLON))
             hit == IF MaskNonZero(has_colon) THEN first_colon_in_word(bytes, at)
                    ELSE None
         IN  IF hit # None THEN Ok(hit[1])
             ELSE scan_scheme_words(bytes, at + 8)
    ELSE scan_scheme_tail(bytes, at)

scan_scheme_optimized(bytes, start) ==
    IF start >= Len(bytes) \/ ~is_ascii_alpha(At(bytes, start))
    THEN Err("InvalidScheme")
    ELSE scan_scheme_words(bytes, start + 1)

\* authority_marker asking for one byte more after the marker
authority_marker_one_more(bytes, at) ==
    IF at + 3 >= Len(bytes) \/ Slice(bytes, at, at + 3) # <<COLON, SLASH, SLASH>>
    THEN Err("MalformedUrl")
    ELSE Ok(at + 3)

\* the three bytes at the colon must be "://": the cursor after them
authority_marker(bytes, at) ==
    IF at + 2 >= Len(bytes) \/ Slice(bytes, at, at + 3) # <<COLON, SLASH, SLASH>>
    THEN Err("MalformedUrl")
    ELSE Ok(at + 3)

---------------------------------------------------------------------------
(* Authority                                                               *)

IsPathQueryFragment(b) == b \in {SLASH, QUESTION, HASH}

RECURSIVE scan_to_path_query_fragment_static(_, _, _)
scan_to_path_query_fragment_static(bytes, at, len) ==
    IF at < len /\ ~IsPathQueryFragment(At(bytes, at))
    THEN scan_to_path_query_fragment_static(bytes, at + 1, len)
    ELSE at

\* for i in 0..16 { if matches!(bytes[pos + i], b'/' | b'?' | b'#') { return pos + i } }
first_delimiter_in_chunk(bytes, at) ==
    LET hits == {i \in 0..15 : IsPathQueryFragment(At(bytes, at + i))}
    IN  IF hits = {} THEN None ELSE Some(at + trailing_zeros(hits))

\* scan_to_path_query_fragment_simd testing the chunk for '/' only
RECURSIVE scan_to_path_query_fragment_simd_slash_only(_, _, _)
scan_to_path_query_fragment_simd_slash_only(bytes, at, len) ==
    IF at + 16 <= len
    THEN LET chunk == Slice(bytes, at, at + 16)
             hit == IF MaskNonZero(create_char_mask_128(chunk, SLASH))
                    THEN first_delimiter_in_chunk(bytes, at) ELSE None
         IN  IF hit # None THEN hit[1]
             ELSE scan_to_path_query_fragment_simd_slash_only(bytes, at + 16, len)
    ELSE scan_to_path_query_fragment_static(bytes, at, len)

\* one 16-byte chunk: the mask test, then the search for the delimiter
chunk_hit(bytes, at) ==
    LET chunk == Slice(bytes, at, at + 16)
        combined_mask == MaskOr3(create_char_mask_128(chunk, SLASH),
                                 create_char_mask_128(chunk, QUESTION),
                                 create_char_mask_128(chunk, HASH))
    IN  IF MaskNonZero(combined_mask) THEN first_delimiter_in_chunk(bytes, at)
        ELSE None

\* the loop over the whole 16-byte chunks from at on returns at the first
\* chunk with a hit; when there is none, the bytes after the last whole chunk
\* are scanned one by one
scan_to_path_query_fragment_simd(bytes, at, len) ==
    LET chunks == IF at + 16 <= len THEN (len - at) \div 16 ELSE 0
        hitting == {k \in 0..(chunks - 1) : chunk_hit(bytes, at + 16 * k) # None}
    IN  IF hitting # {}
        THEN chunk_hit(bytes, at + 16 * trailing_zeros(hitting))[1]
        ELSE scan_to_path_query_fragment_static(bytes, at + 16 * chunks, len)

scan_for_byte_static(bytes, start, end, target) ==
    IF start >= end \/ start >= Len(bytes) THEN None
    ELSE LET found == find_byte(Slice(bytes, start, Min(end, Len(bytes))), target)
         IN  IF found = None THEN None ELSE Some(start + found[1])

\* scan_ipv6_host_optimized stopping at the ']' instead of after it
scan_ipv6_host_before_bracket(bytes, start, end) ==
    LET bracket_pos == find_byte(Slice(bytes, start + 1, end), RBRACKET)
    IN  IF bracket_pos # None THEN Ok(start + 1 + bracket_pos[1])
        ELSE Err("InvalidHost")

scan_ipv6_host_optimized(bytes, start, end) ==
    LET bracket_pos == find_byte(Slice(bytes, start + 1, end), RBRACKET)
    IN  IF bracket_pos # None THEN Ok(start + 1 + bracket_pos[1] + 1)
        ELSE Err("InvalidHost")

\* what a parsing step hands back: the error (or ""), the cursor, the table
Step(e, p, rs, fl) == [err |-> e, pos |-> p, ranges |-> rs, flags |-> fl]

\* bytes[i] - b'0' on u8, widened to u32 (the release build wraps)
digit_value(bytes, i) == WrappingSub8(At(bytes, i), ZERO)

\* with overflow checks compiled in, bytes[i] - b'0' aborts for a byte below '0'
subtraction_aborts(bytes, start, end) ==
    \E i \in start..(end - 1) : At(bytes, i) < ZERO

\* the match on len: the digits' value, or -1 for the early InvalidPort return
port_val_of(bytes, start, len) ==
    LET b0 == digit_value(bytes, start)
        b1 == digit_value(bytes, start + 1)
        b2 == digit_value(bytes, start + 2)
        b3 == digit_value(bytes, start + 3)
        b4 == digit_value(bytes, start + 4)
    IN  CASE len = 1 -> b0
          [] len = 2 -> IF b1 > 9 THEN -1 ELSE b0 * 10 + b1
          [] len = 3 -> IF b1 > 9 \/ b2 > 9 THEN -1
                        ELSE b0 * 100 + b1 * 10 + b2
          [] len = 4 -> IF b1 > 9 \/ b2 > 9 \/ b3 > 9 THEN -1
                        ELSE b0 * 1000 + b1 * 100 + b2 * 10 + b3
          [] len = 5 -> IF b1 > 9 \/ b2 > 9 \/ b3 > 9 \/ b4 > 9 THEN -1
                        ELSE b0 * 10000 + b1 * 1000 + b2 * 100 + b3 * 10 + b4

\* parse_port_optimized_static with the range check off by one: 65536 passes
parse_port_without_upper_bound(bytes, start, end, rs, fl, overflow_checks) ==
    IF start >= end \/ ~is_digit(At(bytes, start))
    THEN Step("InvalidPort", start, rs, fl)
    ELSE LET len == end - start
         IN  IF len <= 5
             THEN IF overflow_checks /\ subtraction_aborts(bytes, start, end)
                  THEN Step("Panic", start, rs, fl)
                  ELSE LET port_val == port_val_of(bytes, start, len)
                       IN  IF port_val = -1 \/ port_val = 0 \/ port_val > 65536
                           THEN Step("InvalidPort", start, rs, fl)
                           ELSE Step("", end, set_range(rs, PORT_IDX, start, end),
                                     set_flag(fl, HAS_PORT))
             ELSE Step("InvalidPort", start, rs, fl)

\* overflow_checks: whether the build checks integer arithmetic (debug and
\* test profiles do, the release profile does not)
parse_port_optimized_static(bytes, start, end, rs, fl, overflow_checks) ==
    IF start >= end \/ ~is_digit(At(bytes, start))
    THEN Step("InvalidPort", start, rs, fl)
    ELSE LET len == end - start
         IN  IF len <= 5
             THEN IF overflow_checks /\ subtraction_aborts(bytes, start, end)
                  THEN Step("Panic", start, rs, fl)
                  ELSE LET port_val == port_val_of(bytes, start, len)
                       IN  IF port_val = -1 \/ port_val = 0 \/ port_val > 65535
                           THEN Step("InvalidPort", start, rs, fl)
                           ELSE Step("", end, set_range(rs, PORT_IDX, start, end),
                                     set_flag(fl, HAS_PORT))
             ELSE Step("InvalidPort", start, rs, fl)

parse_host_hyper_optimized(bytes, start, authority_end, rs, fl, overflow_checks) ==
    IF start >= authority_end THEN Step("InvalidHost", start, rs, fl)
    ELSE IF At(bytes, start) = LBRACKET
    THEN LET fl1 == set_flag(fl, IS_IPV6)
             scanned == scan_ipv6_host_optimized(bytes, start, authority_end)
             at == scanned.val
             rs1 == set_range(rs, HOST_IDX, start, at)
         IN  IF scanned.err # "" THEN Step(scanned.err, start, rs, fl1)
             ELSE IF at < authority_end /\ At(bytes, at) = COLON
             THEN IF at + 1 >= authority_end
                  THEN Step("InvalidPort", at, rs1, fl1)
                  ELSE parse_port_optimized_static(bytes, at + 1, authority_end,
                                                   rs1, fl1, overflow_checks)
             ELSE Step("", at, rs1, fl1)
    ELSE LET colon_pos == scan_for_byte_static(bytes, start, authority_end, COLON)
             host_end == IF colon_pos # None THEN colon_pos[1] ELSE authority_end
             rs1 == set_range(rs, HOST_IDX, start, host_end)
         IN  IF host_end = start THEN Step("InvalidHost", start, rs, fl)
             ELSE IF colon_pos # None
             THEN IF colon_pos[1] + 1 >= authority_end
                  THEN Step("InvalidPort", host_end, rs1, fl)
                  ELSE parse_port_optimized_static(bytes, colon_pos[1] + 1,
                                                   authority_end, rs1, fl,
                                                   overflow_checks)
             ELSE Step("", host_end, rs1, fl)

\* parse_authority_hyper_optimized with the password starting at the ':'
parse_authority_password_at_colon(bytes, start, len, rs, fl, overflow_checks) ==
    LET authority_end == scan_to_path_query_fragment_simd(bytes, start, len)
        at_pos == scan_for_byte_static(bytes, start, authority_end, AT_SIGN)
        colon_pos == IF at_pos = None THEN None
                     ELSE scan_for_byte_static(bytes, start, at_pos[1], COLON)
        rs1 == IF at_pos = None THEN rs
               ELSE IF colon_pos # None
               THEN set_range(set_range(rs, USERNAME_IDX, start, colon_pos[1]),
                              PASSWORD_IDX, colon_pos[1], at_pos[1])
               ELSE set_range(rs, USERNAME_IDX, start, at_pos[1])
        fl1 == IF at_pos = None THEN fl
               ELSE IF colon_pos # None
               THEN set_flag(set_flag(fl, HAS_USERNAME), HAS_PASSWORD)
               ELSE set_flag(fl, HAS_USERNAME)
        host_start == IF at_pos = None THEN start ELSE at_pos[1] + 1
    IN  parse_host_hyper_optimized(bytes, host_start, authority_end, rs1, fl1,
                                   overflow_checks)

parse_authority_hyper_optimized(bytes, start, len, rs, fl, overflow_checks) ==
    LET authority_end == scan_to_path_query_fragment_simd(bytes, start, len)
        at_pos == scan_for_byte_static(bytes, start, authority_end, AT_SIGN)
        colon_pos == IF at_pos = None THEN None
                     ELSE scan_for_byte_static(bytes, start, at_pos[1], COLON)
        rs1 == IF at_pos = None THEN rs
               ELSE IF colon_pos # None
               THEN set_range(set_range(rs, USERNAME_IDX, start, colon_pos[1]),
                              PASSWORD_IDX, colon_pos[1] + 1, at_pos[1])
               ELSE set_range(rs, USERNAME_IDX, start, at_pos[1])
        fl1 == IF at_pos = None THEN fl
               ELSE IF colon_pos # None
               THEN set_flag(set_flag(fl, HAS_USERNAME), HAS_PASSWORD)
               ELSE set_flag(fl, HAS_USERNAME)
        host_start == IF at_pos = None THEN start ELSE at_pos[1] + 1
    IN  parse_host_hyper_optimized(bytes, host_start, authority_end, rs1, fl1,
                                   overflow_checks)

---------------------------------------------------------------------------
(* Path, query, fragment, finalization                                     *)

RECURSIVE scan_path_end(_, _, _)
scan_path_end(bytes, at, len) ==
    IF at < len /\ At(bytes, at) # QUESTION /\ At(bytes, at) # HASH
    THEN scan_path_end(bytes, at + 1, len)
    ELSE at

RECURSIVE scan_query_end(_, _, _)
scan_query_end(bytes, at, len) ==
    IF at < len /\ At(bytes, at) # HASH
    THEN scan_query_end(bytes, at + 1, len)
    ELSE at

\* parse_path_components_bulk recording the query even when it is empty
parse_path_components_empty_query(bytes, start, len, rs, fl) ==
    LET path_end == scan_path_end(bytes, start, len)
        rs1 == set_range(rs, PATH_IDX, start, path_end)
        has_q == path_end < len /\ At(bytes, path_end) = QUESTION
        query_start == path_end + 1
        query_end == scan_query_end(bytes, query_start, len)
        rs2 == IF has_q
               THEN set_range(rs1, QUERY_IDX, query_start, query_end) ELSE rs1
        fl2 == IF has_q THEN set_flag(fl, HAS_QUERY) ELSE fl
        at == IF has_q THEN query_end ELSE path_end
        has_f == at < len /\ At(bytes, at) = HASH
        rs3 == IF has_f /\ at + 1 < len
               THEN set_range(rs2, FRAGMENT_IDX, at + 1, len) ELSE rs2
        fl3 == IF has_f /\ at + 1 < len THEN set_flag(fl2, HAS_FRAGMENT) ELSE fl2
    IN  Step("", IF has_f THEN at + 1 ELSE at, rs3, fl3)

parse_path_components_bulk(bytes, start, len, rs, fl) ==
    LET path_end == scan_path_end(bytes, start, len)
        rs1 == set_range(rs, PATH_IDX, start, path_end)
        has_q == path_end < len /\ At(bytes, path_end) = QUESTION
        query_start == path_end + 1
        query_end == scan_query_end(bytes, query_start, len)
        rs2 == IF has_q /\ query_start < query_end
               THEN set_range(rs1, QUERY_IDX, query_start, query_end) ELSE rs1
        fl2 == IF has_q /\ query_start < query_end
               THEN set_flag(fl, HAS_QUERY) ELSE fl
        at == IF has_q THEN query_end ELSE path_end
        has_f == at < len /\ At(bytes, at) = HASH
        rs3 == IF has_f /\ at + 1 < len
               THEN set_range(rs2, FRAGMENT_IDX, at + 1, len) ELSE rs2
        fl3 == IF has_f /\ at + 1 < len THEN set_flag(fl2, HAS_FRAGMENT) ELSE fl2
    IN  Step("", IF has_f THEN at + 1 ELSE at, rs3, fl3)

finalize_parsing(rs, fl, len) ==
    IF Range_is_empty(get_range(rs, HOST_IDX)) THEN Step("InvalidHost", len, rs, fl)
    ELSE IF Range_is_empty(get_range(rs, PATH_IDX))
    THEN Step("", len, set_range(rs, PATH_IDX, len, len), fl)
    ELSE Step("", len, rs, fl)

---------------------------------------------------------------------------
(* Parsed URL accessors.  u is a record [input, ranges, flags].            *)

Url(inp, rs, fl) == [input |-> inp, ranges |-> rs, flags |-> fl]

get_component(u, range) ==
    IF Range_is_empty(range) THEN <<>>
    ELSE Slice(u.input, Range_start(range), Range_end(range))

scheme(u) == get_component(u, get_range(u.ranges, SCHEME_IDX))

username(u) ==
    IF has_flag(u.flags, HAS_USERNAME)
    THEN get_component(u, get_range(u.ranges, USERNAME_IDX)) ELSE <<>>

password(u) ==
    IF has_flag(u.flags, HAS_PASSWORD)
    THEN get_component(u, get_range(u.ranges, PASSWORD_IDX)) ELSE <<>>

host(u) == get_component(u, get_range(u.ranges, HOST_IDX))

port_str(u) ==
    IF has_flag(u.flags, HAS_PORT)
    THEN Some(get_component(u, get_range(u.ranges, PORT_IDX))) ELSE None

\* the checked u16 accumulation of port(): -1 stands for the early None
RECURSIVE port_accumulate(_, _, _)
port_accumulate(bytes, i, acc) ==
    IF i > Len(bytes) THEN acc
    ELSE IF ~is_digit(bytes[i]) THEN -1
    ELSE LET next == acc * 10 + (bytes[i] - ZERO)
         IN  IF acc * 10 > 65535 \/ next > 65535 THEN -1
             ELSE port_accumulate(bytes, i + 1, next)

port(u) ==
    IF ~has_flag(u.flags, HAS_PORT) THEN None
    ELSE LET bytes == get_component(u, get_range(u.ranges, PORT_IDX))
             value == port_accumulate(bytes, 1, 0)
         IN  IF bytes = <<>> \/ value = -1 \/ value = 0 THEN None ELSE Some(value)

path(u) ==
    LET range == get_range(u.ranges, PATH_IDX)
    IN  IF ~Range_is_empty(range) THEN get_component(u, range) ELSE <<SLASH>>

query(u) ==
    IF has_flag(u.flags, HAS_QUERY)
    THEN LET query_str == get_component(u, get_range(u.ranges, QUERY_IDX))
         IN  IF query_str # <<>> THEN Some(query_str) ELSE None
    ELSE None

fragment(u) ==
    IF has_flag(u.flags, HAS_FRAGMENT)
    THEN LET fragment_str == get_component(u, get_range(u.ranges, FRAGMENT_IDX))
         IN  IF fragment_str # <<>> THEN Some(fragment_str) ELSE None
    ELSE None

---------------------------------------------------------------------------
(* Url::parse as a function of the input and of the build                  *)

\* parse_vectorized once the path, query and fragment are recorded (c)
parse_after_path(c, len) == finalize_parsing(c.ranges, c.flags, len)

\* parse_vectorized once the authority has been parsed (a), or has failed
parse_after_authority(bytes, a) ==
    IF a.err # "" THEN a
    ELSE parse_after_path(parse_path_components_bulk(bytes, a.pos, Len(bytes),
                                                     a.ranges, a.flags),
                          Len(bytes))

\* parse_vectorized once the marker has been checked (m)
parse_after_marker(bytes, scheme_end, rs0, m, overflow_checks) ==
    IF m.err # "" THEN Step(m.err, scheme_end, rs0, 0)
    ELSE parse_after_authority(
             bytes,
             parse_authority_hyper_optimized(bytes, m.val, Len(bytes), rs0, 0,
                                             overflow_checks))

\* parse_vectorized after the scheme: the marker, then the three phases
parse_after_scheme(bytes, scheme_end, overflow_checks) ==
    parse_after_marker(bytes, scheme_end,
                       set_range(EmptyRanges, SCHEME_IDX, 0, scheme_end),
                       authority_marker(bytes, scheme_end), overflow_checks)

\* parse_vectorized once the scheme has been scanned (s)
parse_after_scan(bytes, s, overflow_checks) ==
    IF s.err # "" THEN Step(s.err, 0, EmptyRanges, 0)
    ELSE parse_after_scheme(bytes, s.val, overflow_checks)

parse_vectorized(bytes, overflow_checks) ==
    IF Len(bytes) = 0 THEN Step("EmptyUrl", 0, EmptyRanges, 0)
    ELSE parse_after_scan(bytes, scan_scheme_optimized(bytes, 0), overflow_checks)

\* Url::parse: [err |-> "" and the parsed URL, or err |-> the error's name]
Url_parse(inp, overflow_checks) ==
    IF inp = <<>> THEN Step("EmptyUrl", 0, EmptyRanges, 0)
    ELSE parse_vectorized(inp, overflow_checks)

---------------------------------------------------------------------------
(* Url::parse as a state machine: one action per phase of parse_vectorized *)

Fail(e) ==
    /\ result' = e
    /\ pc' = "done"

\* Url::parse and parse_vectorized without their tests for the empty input
Parse_without_empty_test ==
    /\ pc = "parse"
    /\ pc' = "scheme"
    /\ pos' = 0
    /\ ranges' = EmptyRanges
    /\ flags' = 0
    /\ UNCHANGED <<input, parts, locals, result, callVars>>

\* Url::parse: the empty input is refused, otherwise a Url with a zeroed
\* table is built and handed to parse_vectorized
Parse ==
    /\ pc = "parse"
    /\ IF input = <<>>
       THEN Fail("EmptyUrl") /\ UNCHANGED <<pos, ranges, flags>>
       ELSE /\ pc' = "scheme"
            /\ pos' = 0
            /\ ranges' = EmptyRanges
            /\ flags' = 0
            /\ UNCHANGED result
    /\ UNCHANGED <<input, parts, locals, callVars>>

ScanScheme ==
    /\ pc = "scheme"
    /\ LET s == scan_scheme_optimized(input, pos)
       IN  IF s.err # ""
           THEN Fail(s.err) /\ UNCHANGED <<pos, ranges>>
           ELSE /\ ranges' = set_range(ranges, SCHEME_IDX, pos, s.val)
                /\ pos' = s.val
                /\ pc' = "marker"
                /\ UNCHANGED result
    /\ UNCHANGED <<input, parts, locals, flags, callVars>>

CheckMarker ==
    /\ pc = "marker"
    /\ LET m == authority_marker(input, pos)
       IN  IF m.err # ""
           THEN Fail(m.err) /\ UNCHANGED pos
           ELSE /\ pos' = m.val
                /\ pc' = "authority"
                /\ UNCHANGED result
    /\ UNCHANGED <<input, parts, locals, ranges, flags, callVars>>

ParseAuthority ==
    /\ pc = "authority"
    /\ \E overflow_checks \in BOOLEAN :
         \E a \in {parse_authority_hyper_optimized(input, pos, Len(input), ranges,
                                                   flags, overflow_checks)} :
             /\ ranges' = a.ranges
             /\ flags' = a.flags
             /\ IF a.err # ""
                THEN Fail(a.err) /\ UNCHANGED pos
                ELSE /\ pos' = a.pos
                     /\ pc' = "path"
                     /\ UNCHANGED result
    /\ UNCHANGED <<input, parts, locals, callVars>>

ParsePathComponents ==
    /\ pc = "path"
    /\ LET c == parse_path_components_bulk(input, pos, Len(input), ranges, flags)
       IN  /\ ranges' = c.ranges
           /\ flags' = c.flags
           /\ pos' = c.pos
    /\ pc' = "finalize"
    /\ UNCHANGED <<input, parts, locals, result, callVars>>

FinalizeParsing ==
    /\ pc = "finalize"
    /\ LET f == finalize_parsing(ranges, flags, Len(input))
       IN  /\ ranges' = f.ranges
           /\ result' = IF f.err # "" THEN f.err ELSE "Ok"
    /\ pc' = "done"
    /\ UNCHANGED <<input, parts, locals, pos, flags, callVars>>

Next ==
    \/ Parse
    \/ ScanScheme
    \/ CheckMarker
    \/ ParseAuthority
    \/ ParsePathComponents
    \/ FinalizeParsing

---------------------------------------------------------------------------
(* Inputs.  Each specification draws its inputs from one family; parts     *)
(* records the pieces an input was assembled from.                         *)

MaxUserLen == 1
MaxHostLen == 2
MaxAuthLen == 5
MaxTailLen == 5
MaxPortLen == 6
MaxBadPortLen == 4
MaxSchemeFill == 9
MaxSuffixLen == 5

RECURSIVE Rep(_, _)
Rep(b, n) == IF n = 0 THEN <<>> ELSE <<b>> \o Rep(b, n - 1)

Reps(b, max) == {Rep(b, n) : n \in 0..max}

\* every sequence over alphabet of length n
RECURSIVE SeqsOfLen(_, _)
SeqsOfLen(alphabet, n) ==
    IF n = 0 THEN {<<>>}
    ELSE {<<b>> \o t : b \in alphabet, t \in SeqsOfLen(alphabet, n - 1)}

SeqsUpTo(alphabet, max) == UNION {SeqsOfLen(alphabet, n) : n \in 0..max}

Marker == <<COLON, SLASH, SLASH>>

\* an optional piece with its leading delimiter: nothing when absent
Opt(delimiter, piece) == IF piece = None THEN <<>> ELSE <<delimiter>> \o piece[1]

OptionOf(S) == {None} \cup {Some(x) : x \in S}

\* S "://" [U [":" P] "@"] H [":" N] [path] ["?" Q] ["#" F]
Assemble(p) ==
    p.scheme \o Marker
    \o (IF p.user = None THEN <<>>
        ELSE p.user[1] \o Opt(COLON, p.pass) \o <<AT_SIGN>>)
    \o p.host \o Opt(COLON, p.port)
    \o (IF p.path = None THEN <<>> ELSE p.path[1])
    \o Opt(QUESTION, p.query) \o Opt(HASH, p.fragment)

\* "HTTP", "http", "ftp"
Schemes == {<<72, 84, 84, 80>>, <<104, 116, 116, 112>>, <<102, 116, 112>>}

\* runs of 'h', and "[::1]", "[:", "h@h", "[]h"
Hosts ==
    Reps(104, MaxHostLen)
    \cup {<<LBRACKET, COLON, COLON, 49, RBRACKET>>, <<LBRACKET, COLON>>,
          <<104, AT_SIGN, 104>>, <<LBRACKET, RBRACKET, 104>>}

\* "", "80", "0", "8a", "8-"
PortTokens == {<<>>, <<56, 48>>, <<48>>, <<56, 97>>, <<56, 45>>}

\* "/", "/p@"
Paths == {<<SLASH>>, <<SLASH, 112, AT_SIGN>>}

\* "", "q"
Queries == {<<>>, <<113>>}

\* "", "f"
Fragments == {<<>>, <<102>>}

UrlParts ==
    {p \in [scheme : Schemes,
            user : OptionOf(Reps(117, MaxUserLen)),
            pass : OptionOf(Reps(112, MaxUserLen)),
            host : Hosts,
            port : OptionOf(PortTokens),
            path : OptionOf(Paths),
            query : OptionOf(Queries),
            fragment : OptionOf(Fragments)] :
        p.user = None => p.pass = None}

\* no local variable is live
NoLocals == [query_start |-> 0]

\* no other function is being applied
NoCall == [fn |-> "Url::parse"]

\* no batch is being processed
BatchIdle ==
    /\ slots = <<>>
    /\ reader = <<>>
    /\ results = <<>>
    /\ stdout = <<>>
    /\ stderr = <<>>

InitWith(partsSet, assemble(_)) ==
    /\ parts \in partsSet
    /\ input = assemble(parts)
    /\ locals = NoLocals
    /\ pc = "parse"
    /\ pos = 0
    /\ ranges = EmptyRanges
    /\ flags = 0
    /\ result = ""
    /\ call = NoCall
    /\ ret = None
    /\ BatchIdle

\* the empty input, and URLs assembled from pieces
EmptyParts == [empty |-> TRUE]

AssembleUrl(p) == IF p = EmptyParts THEN <<>> ELSE Assemble(p)

Init == InitWith(UrlParts \cup {EmptyParts}, AssembleUrl)

Spec == Init /\ [][Next]_vars

\* "HTTP://" authority tail: every authority over '8' ':' '@' '[' ']'
AuthorityTails == {<<>>, <<SLASH, AT_SIGN>>, <<QUESTION, AT_SIGN, COLON, HASH, AT_SIGN>>}

AuthorityParts ==
    [authority : SeqsUpTo({56, COLON, AT_SIGN, LBRACKET, RBRACKET}, MaxAuthLen),
     tail : AuthorityTails]

AssembleAuthority(p) == <<72, 84, 84, 80>> \o Marker \o p.authority \o p.tail

InitAuthority == InitWith(AuthorityParts \cup {EmptyParts},
                          LAMBDA p : IF p = EmptyParts THEN <<>>
                                     ELSE AssembleAuthority(p))

SpecAuthority == InitAuthority /\ [][Next]_vars

\* "HTTP://h" tail: every tail over '/' '?' '#' 'x'
TailParts == [tail : SeqsUpTo({SLASH, QUESTION, HASH, 120}, MaxTailLen)]

AssembleTail(p) == <<72, 84, 84, 80>> \o Marker \o <<104>> \o p.tail

InitTail == InitWith(TailParts \cup {EmptyParts},
                     LAMBDA p : IF p = EmptyParts THEN <<>> ELSE AssembleTail(p))

SpecTail == InitTail /\ [][Next]_vars

\* "HTTP://h:" token, and "HTTP://[::1]:" token "/p": every token of the
\* digits '0' '3' '5' '6', and every short token over '8' '-' 'a'
PortParts ==
    [host : {<<104>>, <<LBRACKET, COLON, COLON, 49, RBRACKET>>},
     token : SeqsUpTo({48, 51, 53, 54}, MaxPortLen)
             \cup SeqsUpTo({56, 45, 97}, MaxBadPortLen)]

AssemblePort(p) ==
    <<72, 84, 84, 80>> \o Marker \o p.host \o <<COLON>> \o p.token
    \o (IF p.host = <<104>> THEN <<>> ELSE <<SLASH, 112>>)

InitPort == InitWith(PortParts \cup {EmptyParts},
                     LAMBDA p : IF p = EmptyParts THEN <<>> ELSE AssemblePort(p))

SpecPort == InitPort /\ [][Next]_vars

\* a first byte, a run of one fill byte, then every suffix over ':' '/' 'h':
\* first bytes 'A' and '1', fill bytes 'A' 'a' '+' ' '
SchemeParts ==
    [first : {65, 49},
     fill : {65, 97, 43, 32},
     count : 0..MaxSchemeFill,
     suffix : SeqsUpTo({COLON, SLASH, 104}, MaxSuffixLen)]

AssembleScheme(p) == <<p.first>> \o Rep(p.fill, p.count) \o p.suffix

InitScheme == InitWith(SchemeParts \cup {EmptyParts},
                       LAMBDA p : IF p = EmptyParts THEN <<>>
                                  ELSE AssembleScheme(p))

SpecScheme == InitScheme /\ [][Next]_vars

---------------------------------------------------------------------------
(* What the claims speak of, stated from the specification's words         *)

\* the parsed URL of the current state
ParsedUrl == Url(input, ranges, flags)

Accepted == pc = "done" /\ result = "Ok"

IsAsciiLetter(b) == b \in 65..90 \/ b \in 97..122

IsAsciiDigit(b) == b \in 48..57

\* a scheme character: a letter, a digit, '+', '-' or '.'
IsSchemeCharacter(b) == IsAsciiLetter(b) \/ IsAsciiDigit(b) \/ b \in {43, 45, 46}

AllDigits(t) == \A i \in 1..Len(t) : IsAsciiDigit(t[i])

RECURSIVE DecimalValueFrom(_, _, _)
DecimalValueFrom(t, i, acc) ==
    IF i > Len(t) THEN acc ELSE DecimalValueFrom(t, i + 1, acc * 10 + (t[i] - 48))

\* the decimal value of a token of digits
DecimalValue(t) == DecimalValueFrom(t, 1, 0)

\* a number's decimal digits, no leading zero
RECURSIVE ToDecimal(_)
ToDecimal(v) ==
    IF v < 10 THEN <<48 + v>> ELSE ToDecimal(v \div 10) \o <<48 + (v % 10)>>

Contains(t, S) == \E i \in 1..Len(t) : t[i] \in S

\* the least offset in from..(to - 1) whose byte is in S, or to
FirstOf(bytes, from, to, S) ==
    LET hits == {i \in from..(to - 1) : At(bytes, i) \in S}
    IN  IF hits = {} THEN to ELSE CHOOSE i \in hits : \A j \in hits : i <= j

\* scheme() "://" host() [":" port] path() ["?" query] ["#" fragment]
Rebuilt(u) ==
    scheme(u) \o Marker \o host(u)
    \o (IF port(u) = None THEN <<>> ELSE <<COLON>> \o ToDecimal(port(u)[1]))
    \o path(u) \o Opt(QUESTION, query(u)) \o Opt(HASH, fragment(u))

Components(u) == <<scheme(u), host(u), port(u), path(u), query(u), fragment(u)>>

\* C1: the text rebuilt from the accessors of an accepted input is accepted
\* and yields the same scheme, host, port, path, query and fragment
C1_RoundTrip ==
    Accepted =>
        LET again == Url_parse(Rebuilt(ParsedUrl), FALSE)
        IN  /\ again.err = ""
            /\ Components(Url(Rebuilt(ParsedUrl), again.ranges, again.flags))
               = Components(ParsedUrl)

\* C2: the scheme of an accepted input is non-empty, starts with a letter and
\* holds only scheme characters; an input with another byte before its first
\* ':' fails with InvalidScheme
C2_SchemeWellFormed ==
    /\ Accepted =>
           /\ scheme(ParsedUrl) # <<>>
           /\ IsAsciiLetter(scheme(ParsedUrl)[1])
           /\ \A i \in 1..Len(scheme(ParsedUrl)) :
                  IsSchemeCharacter(scheme(ParsedUrl)[i])
    /\ (pc = "done" /\ Contains(input, {COLON})) =>
           LET colon == FirstOf(input, 0, Len(input), {COLON})
           IN  (\E i \in 0..(colon - 1) : ~IsSchemeCharacter(At(input, i)))
               => result = "InvalidScheme"

\* the pieces C3 speaks of: no delimiter inside U, P or H, a valid port
\* token, a path without '?' and '#', a non-empty query without '#', a
\* non-empty fragment
PlainPiece(t) == ~Contains(t, {COLON, AT_SIGN, SLASH, QUESTION, HASH, LBRACKET})

ValidPortToken(t) ==
    Len(t) \in 1..5 /\ AllDigits(t) /\ DecimalValue(t) \in 1..65535

WellFormedParts(p) ==
    /\ p # EmptyParts
    /\ IsAsciiLetter(p.scheme[1])
    /\ \A i \in 1..Len(p.scheme) : IsSchemeCharacter(p.scheme[i])
    /\ p.user # None => PlainPiece(p.user[1])
    /\ p.pass # None => PlainPiece(p.pass[1])
    /\ p.host # <<>> /\ PlainPiece(p.host)
    /\ p.port # None => ValidPortToken(p.port[1])
    /\ p.path # None => (p.path[1][1] = SLASH /\ ~Contains(p.path[1], {QUESTION, HASH}))
    /\ p.query # None => (p.query[1] # <<>> /\ ~Contains(p.query[1], {HASH}))
    /\ p.fragment # None => p.fragment[1] # <<>>

OrEmpty(piece) == IF piece = None THEN <<>> ELSE piece[1]

\* C3: an input assembled from well-formed pieces is accepted and the
\* accessors return exactly those pieces
C3_PiecesReturned ==
    (pc = "done" /\ WellFormedParts(parts)) =>
        /\ result = "Ok"
        /\ scheme(ParsedUrl) = parts.scheme
        /\ username(ParsedUrl) = OrEmpty(parts.user)
        /\ password(ParsedUrl) = OrEmpty(parts.pass)
        /\ host(ParsedUrl) = parts.host
        /\ port(ParsedUrl) = IF parts.port = None THEN None
                             ELSE Some(DecimalValue(parts.port[1]))
        /\ path(ParsedUrl) = IF parts.path = None THEN <<SLASH>> ELSE parts.path[1]
        /\ query(ParsedUrl) = parts.query
        /\ fragment(ParsedUrl) = parts.fragment


\* C4: a port token of digits is accepted exactly when it has 1 to 5 digits
\* and a value in 1..65535; then the Port flag is set and port() is its value;
\* every other token of digits fails with InvalidPort
C4_PortBoundaries ==
    (pc = "done" /\ parts # EmptyParts /\ AllDigits(parts.token)) =>
        IF Len(parts.token) \in 1..5 /\ DecimalValue(parts.token) \in 1..65535
        THEN /\ result = "Ok"
             /\ has_flag(flags, HAS_PORT)
             /\ port(ParsedUrl) = Some(DecimalValue(parts.token))
        ELSE result = "InvalidPort"

\* "65535" is accepted and read back
C4_Witness ==
    /\ Accepted
    /\ parts.token = <<54, 53, 53, 51, 53>>
    /\ port(ParsedUrl) = Some(65535)

\* C5: a ':' after the host followed by nothing, or by a token holding a byte
\* that is no digit, gives the error InvalidPort
C5_BadPortIsInvalidPort ==
    (pc = "done" /\ parts # EmptyParts
        /\ (parts.token = <<>> \/ ~AllDigits(parts.token)))
    => result = "InvalidPort"

\* the offset of the scheme's ':' once the scheme scan has succeeded
SchemeScanned ==
    \/ pc \in {"marker", "authority", "path", "finalize"}
    \/ pc = "done" /\ result \notin {"EmptyUrl", "InvalidScheme"}

MarkerMissing(c) ==
    \/ Len(input) - c < 3
    \/ <<At(input, c), At(input, c + 1), At(input, c + 2)>> # <<COLON, SLASH, SLASH>>

\* C6: with the scheme's ':' at offset c, parsing fails with MalformedUrl
\* exactly when fewer than 3 bytes remain from c or they differ from "://",
\* and otherwise continues at offset c + 3
C6_MarkerChecked ==
    SchemeScanned =>
        LET c == Range_end(get_range(ranges, SCHEME_IDX))
        IN  /\ pc = "done" => (result = "MalformedUrl" <=> MarkerMissing(c))
            /\ pc \in {"authority", "path", "finalize"} => ~MarkerMissing(c)
            /\ pc = "authority" => pos = c + 3

\* three bytes remain from the colon and they are not "://"
C6_Witness ==
    /\ pc = "done"
    /\ result = "MalformedUrl"
    /\ Len(input) - Range_end(get_range(ranges, SCHEME_IDX)) >= 3

\* C7: the host of an accepted input is non-empty, and an input whose host
\* span is empty fails with InvalidHost
C7_EmptyHostRefused ==
    /\ Accepted => host(ParsedUrl) # <<>>
    /\ (pc = "done" /\ parts # EmptyParts /\ parts.host = <<>>)
       => result = "InvalidHost"

\* The authority span of an input "HTTP://" ...: it starts after the marker
\* and ends before the first '/', '?' or '#'
AuthorityStart == Len(<<72, 84, 84, 80>> \o Marker)

AuthorityEnd == FirstOf(input, AuthorityStart, Len(input), {SLASH, QUESTION, HASH})

HasUserinfo == Contains(Slice(input, AuthorityStart, AuthorityEnd), {AT_SIGN})

\* the first '@' of the span
FirstAt == FirstOf(input, AuthorityStart, AuthorityEnd, {AT_SIGN})

HostStart == IF HasUserinfo THEN FirstAt + 1 ELSE AuthorityStart

BracketedHost == HostStart < AuthorityEnd /\ At(input, HostStart) = LBRACKET

\* the first ']' after the '[', or AuthorityEnd
ClosingBracket == FirstOf(input, HostStart + 1, AuthorityEnd, {RBRACKET})

\* C8: a host starting with '[' needs a ']' before the authority end, else
\* InvalidHost; an accepted one has host() from '[' through the first ']', the
\* IPv6 flag, and a port exactly when ':' follows the ']' at once, the port
\* being the rest of the span; no other host sets the IPv6 flag
C8_BracketedHost ==
    parts # EmptyParts =>
        /\ (BracketedHost /\ ClosingBracket = AuthorityEnd /\ pc = "done")
           => result = "InvalidHost"
        /\ (BracketedHost /\ Accepted) =>
               /\ host(ParsedUrl) = Slice(input, HostStart, ClosingBracket + 1)
               /\ has_flag(flags, IS_IPV6)
               /\ IF ClosingBracket + 1 < AuthorityEnd
                     /\ At(input, ClosingBracket + 1) = COLON
                  THEN port_str(ParsedUrl)
                       = Some(Slice(input, ClosingBracket + 2, AuthorityEnd))
                  ELSE port_str(ParsedUrl) = None
        /\ (~BracketedHost /\ pc # "parse") => ~has_flag(flags, IS_IPV6)

\* "[:]:8": a colon inside the brackets, a port after them
C8_Witness ==
    /\ Accepted
    /\ has_flag(flags, IS_IPV6)
    /\ Contains(host(ParsedUrl), {COLON})
    /\ port(ParsedUrl) = Some(8)

\* C9: with an '@' in the authority span, the first one ends the userinfo: a
\* ':' before it splits username and password (both flags set), without one
\* the username runs up to the '@' (only its flag set), and the host starts
\* after the '@'; without an '@' in the span both are empty and no flag is set
C9_Userinfo ==
    (Accepted /\ parts # EmptyParts) =>
        IF HasUserinfo
        THEN LET colon == FirstOf(input, AuthorityStart, FirstAt, {COLON})
             IN  /\ IF colon < FirstAt
                    THEN /\ username(ParsedUrl) = Slice(input, AuthorityStart, colon)
                         /\ password(ParsedUrl) = Slice(input, colon + 1, FirstAt)
                         /\ has_flag(flags, HAS_USERNAME)
                         /\ has_flag(flags, HAS_PASSWORD)
                    ELSE /\ username(ParsedUrl) = Slice(input, AuthorityStart, FirstAt)
                         /\ password(ParsedUrl) = <<>>
                         /\ has_flag(flags, HAS_USERNAME)
                         /\ ~has_flag(flags, HAS_PASSWORD)
                 /\ Range_start(get_range(ranges, HOST_IDX)) = FirstAt + 1
        ELSE /\ username(ParsedUrl) = <<>>
             /\ password(ParsedUrl) = <<>>
             /\ ~has_flag(flags, HAS_USERNAME)
             /\ ~has_flag(flags, HAS_PASSWORD)

\* a username and a password, both non-empty, before the host
C9_Witness ==
    /\ Accepted
    /\ username(ParsedUrl) # <<>>
    /\ password(ParsedUrl) # <<>>
    /\ Range_start(get_range(ranges, HOST_IDX)) = FirstAt + 1

\* where the path of the current input ends: the first '?' or '#' from the
\* authority end on
PathEnd == FirstOf(input, AuthorityEnd, Len(input), {QUESTION, HASH})

HasQueryMark == PathEnd < Len(input) /\ At(input, PathEnd) = QUESTION

\* the '#' that ends the path or the query, or Len(input)
HashAt ==
    IF HasQueryMark THEN FirstOf(input, PathEnd + 1, Len(input), {HASH}) ELSE PathEnd

\* C10: on an accepted input the Query flag is set exactly when a byte lies
\* between the '?' that ends the path and the next '#' or the end, the
\* Fragment flag exactly when a byte follows the '#'; query() and fragment()
\* are never Some("")
C10_QueryFragmentFlags ==
    (Accepted /\ parts # EmptyParts) =>
        /\ has_flag(flags, HAS_QUERY) <=> (HasQueryMark /\ HashAt > PathEnd + 1)
        /\ has_flag(flags, HAS_FRAGMENT) <=> HashAt + 1 < Len(input)
        /\ query(ParsedUrl) # Some(<<>>)
        /\ fragment(ParsedUrl) # Some(<<>>)
        /\ has_flag(flags, HAS_QUERY) <=> query(ParsedUrl) # None
        /\ has_flag(flags, HAS_FRAGMENT) <=> fragment(ParsedUrl) # None

\* a bare '?' and a bare '#' at the end: "HTTP://h" path "?#"
C10_Witness ==
    /\ Accepted
    /\ HasQueryMark
    /\ HashAt = PathEnd + 1
    /\ HashAt + 1 = Len(input)
    /\ query(ParsedUrl) = None
    /\ fragment(ParsedUrl) = None

\* C11: on an accepted input path() is never empty: it is "/" when no byte
\* lies between the end of the authority span and the first '?' or '#' (or
\* the end of the input), and otherwise exactly the bytes of that span
C11_PathNeverEmpty ==
    (Accepted /\ parts # EmptyParts) =>
        /\ path(ParsedUrl) # <<>>
        /\ path(ParsedUrl) = IF PathEnd = AuthorityEnd THEN <<SLASH>>
                             ELSE Slice(input, AuthorityEnd, PathEnd)

---------------------------------------------------------------------------
(* Functions of the library applied on their own: call holds the function  *)
(* and its arguments, ret what it returned.                                *)

parserVars == <<input, parts, locals, pc, pos, ranges, flags, result>>

\* no URL is being parsed
ParserIdle ==
    /\ input = <<>>
    /\ parts = EmptyParts
    /\ locals = NoLocals
    /\ pc = "idle"
    /\ pos = 0
    /\ ranges = EmptyRanges
    /\ flags = 0
    /\ result = ""

InitCall(calls) ==
    /\ call \in calls
    /\ ret = None
    /\ ParserIdle
    /\ BatchIdle

Returned == ret # None

---------------------------------------------------------------------------
(* CharClass::find_byte                                                    *)

MaxHaystackLen == 65

\* a haystack of 'x' bytes with the needle at the offsets in hits
HaystackWith(len, hits, needle) ==
    [i \in 1..len |-> IF (i - 1) \in hits THEN needle ELSE 120]

\* the haystacks of one length: the needle nowhere, at one offset, or at an
\* offset and again 1, 31, 32 or 33 bytes later
HaystacksOfLen(len, needle) ==
    {HaystackWith(len, {}, needle)}
    \cup {HaystackWith(len, {a, a + gap}, needle) :
              a \in 0..(len - 1), gap \in {0, 1, 31, 32, 33}}

\* every haystack length up to max, the needle '/' or 0xFF
FindByteCalls(max) ==
    UNION {{[fn |-> "find_byte", haystack |-> h, needle |-> needle] :
                h \in HaystacksOfLen(len, needle)} :
           len \in 0..max, needle \in {SLASH, 255}}

\* CharClass::find_byte: the probe of the processor picks the implementation
FindByte ==
    /\ call.fn = "find_byte"
    /\ ret = None
    /\ \E avx2 \in BOOLEAN :
           ret' = Some(find_byte_on(avx2, call.haystack, call.needle))
    /\ UNCHANGED <<call, parserVars, batchVars>>

InitFindByte == InitCall(FindByteCalls(MaxHaystackLen))

NextFindByte == FindByte

SpecFindByte == InitFindByte /\ [][NextFindByte]_vars

\* C12: with or without the wide path, find_byte returns what the scalar
\* search returns, the offset of the needle's first occurrence or None, and
\* find_byte_simd itself agrees with find_byte_scalar on the haystack
C12_WideEqualsScalar ==
    (call.fn = "find_byte" /\ Returned) =>
        LET first == FirstOf(call.haystack, 0, Len(call.haystack), {call.needle})
        IN  /\ ret[1] = find_byte_scalar(call.haystack, call.needle)
            /\ find_byte_simd(call.haystack, call.needle) = ret[1]
            /\ ret[1] = IF first = Len(call.haystack) THEN None ELSE Some(first)

\* 65 bytes, the needle only in the remainder after two full chunks
C12_Witness ==
    /\ call.fn = "find_byte"
    /\ Len(call.haystack) = 65
    /\ movemask(call.haystack, 0, call.needle) = {}
    /\ movemask(call.haystack, 32, call.needle) = {}
    /\ ret = Some(Some(64))

\* C13: Url::parse returns EmptyUrl exactly when the input has zero length
C13_EmptyUrlIffEmpty ==
    pc = "done" => (result = "EmptyUrl" <=> Len(input) = 0)

\* the empty input has been refused
C13_Witness ==
    /\ pc = "done"
    /\ Len(input) = 0
    /\ result = "EmptyUrl"

---------------------------------------------------------------------------
(* Inputs for the first byte of the scheme                                 *)

MaxFirstByte == 127

\* every ASCII first byte, a run of 'A', then "", "h", ":", ":/" or "://h"
FirstByteParts ==
    [first : 0..MaxFirstByte,
     fill : {65},
     count : 0..MaxSchemeFill,
     suffix : {<<>>, <<104>>, <<COLON>>, <<COLON, SLASH>>, Marker \o <<104>>}]

InitFirstByte == InitWith(FirstByteParts, AssembleScheme)

SpecFirstByte == InitFirstByte /\ [][Next]_vars

\* C14: a non-empty input whose first byte is no ASCII letter, and a
\* non-empty input without any ':', fails with InvalidScheme
C14_InvalidScheme ==
    (pc = "done" /\ Len(input) > 0
        /\ (~IsAsciiLetter(input[1]) \/ ~Contains(input, {COLON})))
    => result = "InvalidScheme"

\* a letter and nine more scheme bytes without ':': the word loop and the
\* byte loop both ran to the end of the input
C14_Witness ==
    /\ pc = "done"
    /\ result = "InvalidScheme"
    /\ Len(input) >= 10
    /\ IsAsciiLetter(input[1])
    /\ ~Contains(input, {COLON})

\* C15: Url::parse ends, for every input, with a parsed URL or with one of
\* EmptyUrl, InvalidScheme, MalformedUrl, InvalidHost, InvalidPort, and never
\* with InvalidCharacter
C15_ErrorSetClosed ==
    pc = "done" =>
        /\ result \in {"Ok", "EmptyUrl", "InvalidScheme", "MalformedUrl",
                       "InvalidHost", "InvalidPort"}
        /\ result # "InvalidCharacter"

---------------------------------------------------------------------------
(* url_parser::parse_url                                                   *)

\* Result<Url, UrlParseError> of Url::parse: the Url, or the error's name
as_result(inp, r) ==
    IF r.err = "" THEN Ok(Url(inp, r.ranges, r.flags)) ELSE Err(r.err)

Url_parse_result(inp, overflow_checks) ==
    as_result(inp, Url_parse(inp, overflow_checks))

\* str::contains with a string pattern
str_contains(text, pattern) ==
    \E i \in 0..(Len(text) - Len(pattern)) :
        Slice(text, i, i + Len(pattern)) = pattern

\* "https://"
HTTPS_PREFIX == <<104, 116, 116, 112, 115, 58, 47, 47>>

\* parse_url prefixing whatever holds no ':'
parse_url_testing_colon(url_str, overflow_checks) ==
    Url_parse_result(IF ~str_contains(url_str, <<COLON>>)
                     THEN HTTPS_PREFIX \o url_str
                     ELSE url_str,
                     overflow_checks)

\* the first argument of Url_parse_result is url_with_scheme
parse_url(url_str, overflow_checks) ==
    Url_parse_result(IF ~str_contains(url_str, <<COLON, SLASH, SLASH>>)
                     THEN HTTPS_PREFIX \o url_str
                     ELSE url_str,
                     overflow_checks)

MaxUrlStrLen == 5

\* every text over 'h' '.' '8' ':' '/' up to MaxUrlStrLen bytes
ParseUrlCalls ==
    {[fn |-> "parse_url", url_str |-> s] :
        s \in SeqsUpTo({104, 46, 56, COLON, SLASH}, MaxUrlStrLen)}

\* url_parser::parse_url, in a build with or without overflow checks
ParseUrl ==
    /\ call.fn = "parse_url"
    /\ ret = None
    /\ \E overflow_checks \in BOOLEAN :
           ret' = Some([overflow_checks |-> overflow_checks,
                        value |-> parse_url(call.url_str, overflow_checks)])
    /\ UNCHANGED <<call, parserVars, batchVars>>

InitParseUrl == InitCall(ParseUrlCalls)

NextParseUrl == ParseUrl

SpecParseUrl == InitParseUrl /\ [][NextParseUrl]_vars

\* the text holds ':' '/' '/' in a row
HasMarker(s) ==
    \E i \in 1..(Len(s) - 2) : s[i] = COLON /\ s[i + 1] = SLASH /\ s[i + 2] = SLASH

\* C18: parse_url(s) is Url::parse("https://" + s) when s holds no "://" and
\* Url::parse(s) when it does; a bare host is accepted with scheme "https"
C18_DefaultScheme ==
    (call.fn = "parse_url" /\ Returned) =>
        LET s == call.url_str
            build == ret[1].overflow_checks
            value == ret[1].value
        IN  /\ HasMarker(s) => value = Url_parse_result(s, build)
            /\ ~HasMarker(s)
               => value = Url_parse_result(<<104, 116, 116, 112, 115>> \o Marker \o s,
                                           build)
            /\ (s # <<>> /\ PlainPiece(s)) =>
                   /\ value.err = ""
                   /\ scheme(value.val) = <<104, 116, 116, 112, 115>>
                   /\ host(value.val) = s

\* the bare host "h.h" has been parsed under the scheme "https"
C18_Witness ==
    /\ call.fn = "parse_url"
    /\ call.url_str = <<104, 46, 104>>
    /\ Returned
    /\ ret[1].value.err = ""
    /\ scheme(ret[1].value.val) = <<104, 116, 116, 112, 115>>
    /\ host(ret[1].value.val) = <<104, 46, 104>>

---------------------------------------------------------------------------
(* domain.rs: the registered domain and the subdomain of a host            *)

DOT == 46

MULTI_PART_TLDS == <<
    \* "co.uk" "org.uk" "ac.uk"
    <<99, 111, 46, 117, 107>>, <<111, 114, 103, 46, 117, 107>>, <<97, 99, 46, 117, 107>>,
    \* "gov.uk" "me.uk" "net.uk"
    <<103, 111, 118, 46, 117, 107>>, <<109, 101, 46, 117, 107>>, <<110, 101, 116, 46, 117, 107>>,
    \* "sch.uk" "com.au" "net.au"
    <<115, 99, 104, 46, 117, 107>>, <<99, 111, 109, 46, 97, 117>>, <<110, 101, 116, 46, 97, 117>>,
    \* "org.au" "edu.au" "gov.au"
    <<111, 114, 103, 46, 97, 117>>, <<101, 100, 117, 46, 97, 117>>, <<103, 111, 118, 46, 97, 117>>,
    \* "co.nz" "net.nz" "org.nz"
    <<99, 111, 46, 110, 122>>, <<110, 101, 116, 46, 110, 122>>, <<111, 114, 103, 46, 110, 122>>,
    \* "govt.nz" "co.za" "org.za"
    <<103, 111, 118, 116, 46, 110, 122>>, <<99, 111, 46, 122, 97>>, <<111, 114, 103, 46, 122, 97>>,
    \* "com.br" "net.br" "org.br"
    <<99, 111, 109, 46, 98, 114>>, <<110, 101, 116, 46, 98, 114>>, <<111, 114, 103, 46, 98, 114>>,
    \* "co.jp" "com.mx" "com.ar"
    <<99, 111, 46, 106, 112>>, <<99, 111, 109, 46, 109, 120>>, <<99, 111, 109, 46, 97, 114>>,
    \* "com.sg" "com.my" "co.id"
    <<99, 111, 109, 46, 115, 103>>, <<99, 111, 109, 46, 109, 121>>, <<99, 111, 46, 105, 100>>,
    \* "com.hk" "co.th" "in.th"
    <<99, 111, 109, 46, 104, 107>>, <<99, 111, 46, 116, 104>>, <<105, 110, 46, 116, 104>> >>

\* str::ends_with and str::starts_with with a string pattern
ends_with(text, pattern) ==
    /\ Len(pattern) <= Len(text)
    /\ Slice(text, Len(text) - Len(pattern), Len(text)) = pattern

starts_with(text, pattern) ==
    /\ Len(pattern) <= Len(text)
    /\ Slice(text, 0, Len(pattern)) = pattern

is_multi_part_tld(domain) ==
    \E k \in 1..Len(MULTI_PART_TLDS) : ends_with(domain, <<DOT>> \o MULTI_PART_TLDS[k])

\* str::split('.'): the pieces between the dots, at least one
RECURSIVE split_from(_, _, _)
split_from(text, at, piece) ==
    IF at >= Len(text) THEN <<piece>>
    ELSE IF At(text, at) = DOT THEN <<piece>> \o split_from(text, at + 1, <<>>)
    ELSE split_from(text, at + 1, Append(piece, At(text, at)))

split(text) == split_from(text, 0, <<>>)

\* [&str]::join(".")
RECURSIVE join(_)
join(pieces) ==
    IF Len(pieces) = 0 THEN <<>>
    ELSE IF Len(pieces) = 1 THEN pieces[1]
    ELSE pieces[1] \o <<DOT>> \o join(Tail(pieces))

\* one decimal group of an IPv4 address as the standard library reads it:
\* 1 to 3 digits, no leading zero before another digit, at most 255
ipv4_octet(piece) ==
    /\ Len(piece) \in 1..3
    /\ \A i \in 1..Len(piece) : is_digit(piece[i])
    /\ (Len(piece) > 1 => piece[1] # ZERO)
    /\ port_accumulate(piece, 1, 0) \in 0..255

\* host.parse::<std::net::Ipv4Addr>().is_ok()
parses_as_ipv4(host_text) ==
    LET groups == split(host_text)
    IN  Len(groups) = 4 /\ \A i \in 1..4 : ipv4_octet(groups[i])

\* extract_domain keeping the last two labels whatever the suffix
extract_domain_last_two(host_text) ==
    IF starts_with(host_text, <<LBRACKET>>) /\ ends_with(host_text, <<RBRACKET>>)
    THEN <<>>
    ELSE IF parses_as_ipv4(host_text) THEN <<>>
    ELSE LET labels == split(host_text)
             parts_len == Len(labels)
         IN  IF parts_len <= 2 THEN host_text
             ELSE join(SubSeq(labels, parts_len - 1, parts_len))

extract_domain(host_text) ==
    IF starts_with(host_text, <<LBRACKET>>) /\ ends_with(host_text, <<RBRACKET>>)
    THEN <<>>
    ELSE IF parses_as_ipv4(host_text) THEN <<>>
    ELSE LET labels == split(host_text)
             parts_len == Len(labels)
             potential_domain == join(SubSeq(labels, parts_len - 2, parts_len))
         IN  IF parts_len <= 2 THEN host_text
             ELSE IF parts_len >= 3 /\ is_multi_part_tld(potential_domain)
             THEN potential_domain
             ELSE join(SubSeq(labels, parts_len - 1, parts_len))

\* str::strip_suffix: None when the text does not end with the suffix
strip_suffix(text, suffix) ==
    IF ends_with(text, suffix) THEN Some(Slice(text, 0, Len(text) - Len(suffix)))
    ELSE None

\* str::trim_end_matches('.')
RECURSIVE trim_end_dots(_)
trim_end_dots(text) ==
    IF Len(text) > 0 /\ text[Len(text)] = DOT
    THEN trim_end_dots(Slice(text, 0, Len(text) - 1))
    ELSE text

extract_subdomain(host_text) ==
    LET domain == extract_domain(host_text)
        dotted == strip_suffix(host_text, <<DOT>> \o domain)
        plain == strip_suffix(host_text, domain)
    IN  IF host_text = domain THEN <<>>
        ELSE trim_end_dots(IF dotted # None THEN dotted[1]
                           ELSE IF plain # None THEN plain[1]
                           ELSE host_text)

MaxLabels == 4

\* "a", "co", "uk", "1", "255", "256", "01" and the empty label
Labels ==
    {<<97>>, <<99, 111>>, <<117, 107>>, <<49>>, <<50, 53, 53>>, <<50, 53, 54>>,
     <<48, 49>>, <<>>}

\* the labels with a '.' between neighbours
RECURSIVE Dotted(_)
Dotted(labels) ==
    IF Len(labels) = 1 THEN labels[1]
    ELSE Dotted(SubSeq(labels, 1, Len(labels) - 1)) \o <<DOT>> \o labels[Len(labels)]

\* hosts of 1..MaxLabels labels, bare or between '[' and ']'
DomainCalls(fn) ==
    {[fn |-> fn, labels |-> labels, bracketed |-> bracketed,
      host |-> IF bracketed THEN <<LBRACKET>> \o Dotted(labels) \o <<RBRACKET>>
               ELSE Dotted(labels)] :
        labels \in UNION {[1..n -> Labels] : n \in 1..MaxLabels},
        bracketed \in BOOLEAN}

ExtractDomain ==
    /\ call.fn = "extract_domain"
    /\ ret = None
    /\ ret' = Some(extract_domain(call.host))
    /\ UNCHANGED <<call, parserVars, batchVars>>

ExtractSubdomain ==
    /\ call.fn = "extract_subdomain"
    /\ ret = None
    /\ ret' = Some(extract_subdomain(call.host))
    /\ UNCHANGED <<call, parserVars, batchVars>>

InitDomain == InitCall(DomainCalls("extract_domain") \cup DomainCalls("extract_subdomain"))

NextDomain ==
    \/ ExtractDomain
    \/ ExtractSubdomain

SpecDomain == InitDomain /\ [][NextDomain]_vars

\* a decimal number 0..255 written without a leading zero
IsOctetLabel(label) == \E v \in 0..255 : label = ToDecimal(v)

IsIpv4Address(labels) ==
    Len(labels) = 4 /\ \A i \in 1..4 : IsOctetLabel(labels[i])

LastLabels(labels, n) == Dotted(SubSeq(labels, Len(labels) - n + 1, Len(labels)))

IsMultiPartTld(text) == \E k \in 1..Len(MULTI_PART_TLDS) : MULTI_PART_TLDS[k] = text

\* C19: extract_domain gives "" for a bracketed literal and for an IPv4
\* address; otherwise the host itself when it has at most 2 labels, its last
\* 3 labels when they are at least 3 and the last two form an entry of
\* MULTI_PART_TLDS, and its last 2 labels in every other case
C19_ExtractDomain ==
    (call.fn = "extract_domain" /\ Returned) =>
        ret[1] = IF call.bracketed \/ IsIpv4Address(call.labels) THEN <<>>
                 ELSE IF Len(call.labels) <= 2 THEN call.host
                 ELSE IF IsMultiPartTld(LastLabels(call.labels, 2))
                 THEN LastLabels(call.labels, 3)
                 ELSE LastLabels(call.labels, 2)

\* "a.a.co.uk": four labels, the last three returned
C19_Witness ==
    /\ call.fn = "extract_domain"
    /\ call.host = <<97, 46, 97, 46, 99, 111, 46, 117, 107>>
    /\ ret = Some(<<97, 46, 99, 111, 46, 117, 107>>)

\* C20: with d = extract_domain(h), extract_subdomain(h) is "" when h = d and
\* otherwise h is extract_subdomain(h), a '.', then d
C20_SubdomainPrecedesDomain ==
    (call.fn = "extract_subdomain" /\ Returned) =>
        LET d == extract_domain(call.host)
        IN  IF call.host = d THEN ret[1] = <<>>
            ELSE call.host = ret[1] \o <<DOT>> \o d

---------------------------------------------------------------------------
(* url_parser::extract_url_components and processor::process_url           *)

TAB == 9

\* u16::to_string
RECURSIVE to_string(_)
to_string(v) ==
    IF v < 10 THEN <<ZERO + v>> ELSE to_string(v \div 10) \o <<ZERO + (v % 10)>>

extract_url_components(url) ==
    LET host_str == host(url)
    IN  [scheme |-> scheme(url),
         username |-> username(url),
         subdomain |-> IF host_str # <<>> THEN extract_subdomain(host_str) ELSE <<>>,
         domain |-> IF host_str # <<>> THEN extract_domain(host_str) ELSE <<>>,
         hostname |-> host_str,
         port |-> IF port(url) = None THEN <<>> ELSE to_string(port(url)[1]),
         path |-> path(url),
         query |-> IF query(url) # None THEN query(url)[1] ELSE <<>>,
         fragment |-> IF fragment(url) # None THEN fragment(url)[1] ELSE <<>>]

\* Vec<String>::join("\t")
RECURSIVE join_tab(_)
join_tab(pieces) ==
    IF Len(pieces) = 0 THEN <<>>
    ELSE IF Len(pieces) = 1 THEN pieces[1]
    ELSE pieces[1] \o <<TAB>> \o join_tab(Tail(pieces))

\* the Config flags that select what process_url prints
Config(enabled) ==
    [all |-> "all" \in enabled, host |-> "host" \in enabled,
     domain |-> "domain" \in enabled, scheme |-> "scheme" \in enabled,
     username |-> "username" \in enabled, port |-> "port" \in enabled,
     path |-> "path" \in enabled, query |-> "query" \in enabled,
     fragment |-> "fragment" \in enabled, custom |-> "custom" \in enabled,
     json |-> "json" \in enabled, sort |-> "sort" \in enabled,
     unique |-> "unique" \in enabled, legacy_format |-> None]

\* --host and none of the other component flags
host_alone(config) ==
    /\ config.host
    /\ ~config.all
    /\ ~config.domain
    /\ ~config.scheme
    /\ ~config.username
    /\ ~config.port
    /\ ~config.path
    /\ ~config.query
    /\ ~config.fragment

\* the pushes onto the local vector, in their order
pushed_parts(config, components) ==
    (IF config.all \/ config.scheme THEN <<components.scheme>> ELSE <<>>)
    \o (IF (config.all \/ config.username) /\ components.username # <<>>
        THEN <<components.username>> ELSE <<>>)
    \o (IF config.all /\ components.subdomain # <<>>
        THEN <<components.subdomain>> ELSE <<>>)
    \o (IF config.all \/ config.host
        THEN IF config.host /\ ~config.all THEN <<components.subdomain>>
             ELSE IF config.all THEN <<components.hostname>> ELSE <<>>
        ELSE <<>>)
    \o (IF (config.all \/ config.port) /\ components.port # <<>>
        THEN <<components.port>> ELSE <<>>)
    \o (IF config.all \/ config.path THEN <<components.path>> ELSE <<>>)
    \o (IF (config.all \/ config.query) /\ components.query # <<>>
        THEN <<components.query>> ELSE <<>>)
    \o (IF (config.all \/ config.fragment) /\ components.fragment # <<>>
        THEN <<components.fragment>> ELSE <<>>)
    \o (IF config.all \/ config.domain THEN <<components.domain>> ELSE <<>>)

\* process_url: out is the Option<String> it returns, err the parse error it
\* reports on standard error ("" when the URL parsed, "Panic" when the parse
\* aborted)
\* if !parts.is_empty() { return Some(parts.join("\t")) } ... None
joined_parts(pieces) == IF pieces # <<>> THEN Some(join_tab(pieces)) ELSE None

\* the Ok arm of process_url
process_components(config, components) ==
    IF host_alone(config)
    THEN IF components.subdomain # <<>> THEN Some(components.subdomain) ELSE None
    ELSE joined_parts(pushed_parts(config, components))

\* the match on what parse_url returned
process_parsed(config, parsed) ==
    IF parsed.err # "" THEN [out |-> None, err |-> parsed.err]
    ELSE [out |-> process_components(config, extract_url_components(parsed.val)),
          err |-> ""]

process_url(config, url_str, overflow_checks) ==
    process_parsed(config, parse_url(url_str, overflow_checks))

---------------------------------------------------------------------------
(* processor::process_urls_parallel: the workers of the thread pool take   *)
(* the URLs in any order; collect assembles the outputs in the URLs' order *)

MaxUrls == 3

\* "w.ex.co", "HTTP://ex.co/p?q#f", "1.1.1.1", ":", "ex.co:8-"
BatchUrls ==
    {<<119, 46, 101, 120, 46, 99, 111>>,
     <<72, 84, 84, 80>> \o Marker
        \o <<101, 120, 46, 99, 111, SLASH, 112, QUESTION, 113, HASH, 102>>,
     <<49, 46, 49, 46, 49, 46, 49>>,
     <<COLON>>,
     <<101, 120, 46, 99, 111, COLON, 56, 45>>}

BatchConfigs == {Config({"host"}), Config({"domain"}), Config({"all"})}

ParallelCalls ==
    [fn : {"process_urls_parallel"},
     config : BatchConfigs,
     urls : UNION {[1..n -> BatchUrls] : n \in 0..MaxUrls},
     overflow_checks : BOOLEAN]

\* the panic of a worker, passed on to the caller
Panicked == [err |-> "Panic", val |-> <<>>]

\* filter_map(..).collect(): the Some outputs in the order of the URLs
RECURSIVE collect(_)
collect(outputs) ==
    IF Len(outputs) = 0 THEN <<>>
    ELSE (IF outputs[1][1] = None THEN <<>> ELSE outputs[1][1])
         \o collect(Tail(outputs))

\* the job of a URL: waiting for a worker; then what the worker holds on its
\* own stack while process_url runs, the value of parse_url and then the
\* components; done with the Option<String> of process_url; or panicked
Waiting == [stage |-> "waiting"]
Done(out) == [stage |-> "done", out |-> out]

\* a worker of the pool takes a URL no worker has taken and applies
\* parse_url to it; a panic in there unwinds the job
WorkerParse ==
    /\ call.fn = "process_urls_parallel"
    /\ ret = None
    /\ \E i \in DOMAIN slots :
           /\ slots[i] = Waiting
           /\ \E parsed \in {parse_url(call.urls[i], call.overflow_checks)} :
                  slots' = [slots EXCEPT
                              ![i] = IF parsed.err = "Panic"
                                     THEN [stage |-> "panicked"]
                                     ELSE [stage |-> "parsed", parsed |-> parsed]]
    /\ UNCHANGED <<call, ret, parserVars, reader, results, stdout, stderr>>

\* the worker matches on what parse_url gave: Ok, it extracts the
\* components; Err, it writes the line to standard error and returns None
WorkerMatch ==
    /\ call.fn = "process_urls_parallel"
    /\ ret = None
    /\ \E i \in DOMAIN slots :
           /\ slots[i].stage = "parsed"
           /\ IF slots[i].parsed.err = ""
              THEN /\ slots' = [slots EXCEPT
                                  ![i] = [stage |-> "components",
                                          components |->
                                              extract_url_components(slots[i].parsed.val)]]
                   /\ UNCHANGED stderr
              ELSE /\ stderr' = Append(stderr, [url |-> call.urls[i],
                                                err |-> slots[i].parsed.err])
                   /\ slots' = [slots EXCEPT ![i] = Done(None)]
    /\ UNCHANGED <<call, ret, parserVars, reader, results, stdout>>

\* the worker selects the components the configuration asks for and returns
WorkerOutput ==
    /\ call.fn = "process_urls_parallel"
    /\ ret = None
    /\ \E i \in DOMAIN slots :
           /\ slots[i].stage = "components"
           /\ slots' = [slots EXCEPT
                          ![i] = Done(process_components(call.config,
                                                         slots[i].components))]
    /\ UNCHANGED <<call, ret, parserVars, reader, results, stdout, stderr>>

\* every URL has been processed: the vector is returned
Collect ==
    /\ call.fn = "process_urls_parallel"
    /\ ret = None
    /\ \A i \in DOMAIN slots : slots[i].stage = "done"
    /\ ret' = Some(Ok(collect([i \in DOMAIN slots |-> <<slots[i].out>>])))
    /\ UNCHANGED <<call, parserVars, batchVars>>

\* a job has panicked and no worker is inside process_url: the pool passes
\* the panic on to the caller, whether or not the jobs still waiting have
\* been run
Unwind ==
    /\ call.fn = "process_urls_parallel"
    /\ ret = None
    /\ \E i \in DOMAIN slots : slots[i].stage = "panicked"
    /\ \A i \in DOMAIN slots : slots[i].stage \in {"waiting", "done", "panicked"}
    /\ ret' = Some(Panicked)
    /\ UNCHANGED <<call, parserVars, batchVars>>

InitParallel ==
    /\ call \in ParallelCalls
    /\ ret = None
    /\ ParserIdle
    /\ slots = [i \in 1..Len(call.urls) |-> Waiting]
    /\ reader = <<>>
    /\ results = <<>>
    /\ stdout = <<>>
    /\ stderr = <<>>

NextParallel ==
    \/ WorkerParse
    \/ WorkerMatch
    \/ WorkerOutput
    \/ Collect
    \/ Unwind

SpecParallel == InitParallel /\ [][NextParallel]_vars

\* process_url applied on its own to each URL, under each configuration and
\* in each build
IsolatedOutput ==
    [config \in BatchConfigs |->
        [url_str \in BatchUrls |->
            [overflow_checks \in BOOLEAN |->
                process_url(config, url_str, overflow_checks).out]]]

\* process_url applied to the i-th URL of the batch on its own
Isolated(i) == IsolatedOutput[call.config][call.urls[i]][call.overflow_checks]

Occurrences(entries, x) == Cardinality({k \in 1..Len(entries) : entries[k] = x})

\* C16: whatever the order in which the workers run, each URL's output is
\* that of process_url on it alone, and once the call has ended every URL
\* whose output is Some has its entry in the returned vector, which holds
\* nothing else: no output is lost, duplicated or altered by another parse
C16_ParallelEqualsIsolated ==
    call.fn = "process_urls_parallel" =>
        /\ \A i \in DOMAIN slots :
               slots[i].stage = "done" => slots[i].out = Isolated(i)
        /\ (Returned /\ ret[1].err = "") =>
               Len(ret[1].val) = Cardinality({j \in DOMAIN slots : Isolated(j) # None})
        /\ Returned =>
               \A i \in DOMAIN slots :
                   Isolated(i) # None =>
                       /\ ret[1].err = ""
                       /\ Occurrences(ret[1].val, Isolated(i)[1])
                          = Cardinality({j \in DOMAIN slots : Isolated(j) = Isolated(i)})

---------------------------------------------------------------------------
(* output::custom_format_url and output::output_json                       *)

\* str::replace: the matches of a non-empty pattern, found from left to
\* right without overlap, each replaced
RECURSIVE replace_from(_, _, _, _)
replace_from(text, at, from, to) ==
    IF at + Len(from) > Len(text) THEN Slice(text, at, Len(text))
    ELSE IF Slice(text, at, at + Len(from)) = from
    THEN to \o replace_from(text, at + Len(from), from, to)
    ELSE <<At(text, at)>> \o replace_from(text, at + 1, from, to)

replace(text, from, to) == replace_from(text, 0, from, to)

\* "{scheme}", "{username}", ... as bytes
PLACEHOLDER == [
    scheme |-> <<123, 115, 99, 104, 101, 109, 101, 125>>,
    username |-> <<123, 117, 115, 101, 114, 110, 97, 109, 101, 125>>,
    subdomain |-> <<123, 115, 117, 98, 100, 111, 109, 97, 105, 110, 125>>,
    host |-> <<123, 104, 111, 115, 116, 125>>,
    hostname |-> <<123, 104, 111, 115, 116, 110, 97, 109, 101, 125>>,
    domain |-> <<123, 100, 111, 109, 97, 105, 110, 125>>,
    port |-> <<123, 112, 111, 114, 116, 125>>,
    path |-> <<123, 112, 97, 116, 104, 125>>,
    query |-> <<123, 113, 117, 101, 114, 121, 125>>,
    fragment |-> <<123, 102, 114, 97, 103, 109, 101, 110, 116, 125>>]

\* "{scheme}://{host}{path}"
DEFAULT_FORMAT ==
    PLACEHOLDER.scheme \o Marker \o PLACEHOLDER.host \o PLACEHOLDER.path

\* the chain of replace calls, the first one innermost
format_components(format, components) ==
    replace(replace(replace(replace(replace(replace(replace(replace(replace(replace(
        format,
        PLACEHOLDER.scheme, components.scheme),
        PLACEHOLDER.username, components.username),
        PLACEHOLDER.subdomain, components.subdomain),
        PLACEHOLDER.host, components.hostname),
        PLACEHOLDER.hostname, components.hostname),
        PLACEHOLDER.domain, components.domain),
        PLACEHOLDER.port, components.port),
        PLACEHOLDER.path, components.path),
        PLACEHOLDER.query, components.query),
        PLACEHOLDER.fragment, components.fragment)

\* the match on what parse_url returned: out is the String of the Ok value,
\* err the parse error reported on standard error
custom_format_parsed(format, parsed) ==
    IF parsed.err # "" THEN [out |-> <<>>, err |-> parsed.err]
    ELSE [out |-> format_components(format, extract_url_components(parsed.val)),
          err |-> ""]

custom_format_url(url_str, format, overflow_checks) ==
    custom_format_parsed(format, parse_url(url_str, overflow_checks))

HEX_DIGITS == <<48, 49, 50, 51, 52, 53, 54, 55, 56, 57, 97, 98, 99, 100, 101, 102>>

\* serde_json's escape of one byte of a string
json_escape_byte(b) ==
    CASE b = 34 -> <<92, 34>>
      [] b = 92 -> <<92, 92>>
      [] b = 8 -> <<92, 98>>
      [] b = 12 -> <<92, 102>>
      [] b = 10 -> <<92, 110>>
      [] b = 13 -> <<92, 114>>
      [] b = 9 -> <<92, 116>>
      [] b < 32 /\ b \notin {8, 9, 10, 12, 13} ->
            <<92, 117, 48, 48, HEX_DIGITS[(b \div 16) + 1], HEX_DIGITS[(b % 16) + 1]>>
      [] OTHER -> <<b>>

RECURSIVE json_string_body(_)
json_string_body(text) ==
    IF Len(text) = 0 THEN <<>>
    ELSE json_escape_byte(text[1]) \o json_string_body(Tail(text))

\* the entry as a JSON string
json_string(text) == <<34>> \o json_string_body(text) \o <<34>>

\* the array's lines: four blanks, the string, a comma after all but the last
json_array_lines(entries) ==
    [k \in 1..Len(entries) |->
        <<32, 32, 32, 32>> \o json_string(entries[k])
        \o (IF k < Len(entries) THEN <<44>> ELSE <<>>)]

\* println!(to_string_pretty(&UrlsOutput { urls })), line by line
output_json(entries) ==
    IF Len(entries) = 0
    THEN << <<123>>,
            <<32, 32, 34, 117, 114, 108, 115, 34, 58, 32, 91, 93>>,
            <<125>> >>
    ELSE << <<123>>, <<32, 32, 34, 117, 114, 108, 115, 34, 58, 32, 91>> >>
         \o json_array_lines(entries)
         \o << <<32, 32, 93>>, <<125>> >>

---------------------------------------------------------------------------
(* processor::process_urls_streaming                                       *)

\* Url::host_str
host_str(u) ==
    IF ~Range_is_empty(get_range(u.ranges, HOST_IDX))
    THEN Some(get_component(u, get_range(u.ranges, HOST_IDX)))
    ELSE None

\* the characters with the Unicode property White_Space, in UTF-8:
\* U+0009..U+000D, U+0020, U+0085, U+00A0, U+1680, U+2000..U+200A, U+2028,
\* U+2029, U+202F, U+205F, U+3000
WHITE_SPACE ==
    {<<b>> : b \in {9, 10, 11, 12, 13, 32}}
    \cup {<<194, 133>>, <<194, 160>>, <<225, 154, 128>>}
    \cup {<<226, 128, b>> : b \in (128..138) \cup {168, 169, 175}}
    \cup {<<226, 129, 159>>, <<227, 128, 128>>}

\* char::is_whitespace of the character with the UTF-8 bytes c
is_whitespace(c) == c \in WHITE_SPACE

\* the length in bytes of the white space character text starts with, or 0
leading_whitespace(text) ==
    IF \E n \in 1..Min(3, Len(text)) : is_whitespace(SubSeq(text, 1, n))
    THEN CHOOSE n \in 1..Min(3, Len(text)) : is_whitespace(SubSeq(text, 1, n))
    ELSE 0

\* the length in bytes of the white space character text ends with, or 0
trailing_whitespace(text) ==
    IF \E n \in 1..Min(3, Len(text)) :
           is_whitespace(SubSeq(text, Len(text) - n + 1, Len(text)))
    THEN CHOOSE n \in 1..Min(3, Len(text)) :
             is_whitespace(SubSeq(text, Len(text) - n + 1, Len(text)))
    ELSE 0

RECURSIVE trim_start(_)
trim_start(text) ==
    IF leading_whitespace(text) > 0
    THEN trim_start(SubSeq(text, leading_whitespace(text) + 1, Len(text)))
    ELSE text

RECURSIVE trim_end(_)
trim_end(text) ==
    IF trailing_whitespace(text) > 0
    THEN trim_end(SubSeq(text, 1, Len(text) - trailing_whitespace(text)))
    ELSE text

trim(text) == trim_end(trim_start(text))

\* the order of String: byte by byte, a proper prefix first
RECURSIVE string_less(_, _)
string_less(a, b) ==
    IF Len(b) = 0 THEN FALSE
    ELSE IF Len(a) = 0 THEN TRUE
    ELSE IF a[1] # b[1] THEN a[1] < b[1]
    ELSE string_less(Tail(a), Tail(b))

\* x put after the entries that are not greater
RECURSIVE insert_sorted(_, _)
insert_sorted(sorted, x) ==
    IF Len(sorted) = 0 THEN <<x>>
    ELSE IF string_less(x, sorted[1]) THEN <<x>> \o sorted
    ELSE <<sorted[1]>> \o insert_sorted(Tail(sorted), x)

\* Vec<String>::sort
RECURSIVE sort_from(_, _)
sort_from(entries, sorted) ==
    IF Len(entries) = 0 THEN sorted
    ELSE sort_from(Tail(entries), insert_sorted(sorted, entries[1]))

sort(entries) == sort_from(entries, <<>>)

\* Vec::dedup: of each run of equal neighbours the first is kept
RECURSIVE dedup(_)
dedup(entries) ==
    IF Len(entries) <= 1 THEN entries
    ELSE IF entries[1] = entries[2] THEN dedup(Tail(entries))
    ELSE <<entries[1]>> \o dedup(Tail(entries))

\* what one line adds: push holds the entry pushed (if any), report the
\* parse error written to standard error (if any), panic an aborted parse
Outcome(push, report, panic) == [push |-> push, report |-> report, panic |-> panic]

\* --host alone: the subdomain, or the host when there is none
host_line(parsed) ==
    IF parsed.err = "Panic" THEN Outcome(<<>>, "", TRUE)
    ELSE IF parsed.err # "" THEN Outcome(<<>>, "", FALSE)
    ELSE IF host_str(parsed.val) = None THEN Outcome(<<>>, "", FALSE)
    ELSE IF extract_subdomain(host_str(parsed.val)[1]) # <<>>
    THEN Outcome(<<extract_subdomain(host_str(parsed.val)[1])>>, "", FALSE)
    ELSE Outcome(<<host_str(parsed.val)[1]>>, "", FALSE)

\* --custom: the formatted text unless it is empty
custom_line(formatted) ==
    IF formatted.err = "Panic" THEN Outcome(<<>>, "", TRUE)
    ELSE Outcome(IF formatted.out # <<>> THEN <<formatted.out>> ELSE <<>>,
                 formatted.err, FALSE)

\* otherwise what process_url returns, if anything
processed_line(processed) ==
    IF processed.err = "Panic" THEN Outcome(<<>>, "", TRUE)
    ELSE Outcome(IF processed.out # None THEN <<processed.out[1]>> ELSE <<>>,
                 processed.err, FALSE)

\* the body of the loop for one trimmed line
line_outcome(config, line, overflow_checks) ==
    IF line = <<>> THEN Outcome(<<>>, "", FALSE)
    ELSE IF host_alone(config) /\ ~config.custom /\ ~config.json
    THEN host_line(parse_url(line, overflow_checks))
    ELSE IF config.custom /\ ~config.json
    THEN custom_line(custom_format_url(
                         line,
                         IF config.legacy_format # None THEN config.legacy_format[1]
                         ELSE DEFAULT_FORMAT,
                         overflow_checks))
    ELSE processed_line(process_url(config, line, overflow_checks))

\* if config.sort { results.sort() }
sorted_if(config, entries) == IF config.sort THEN sort(entries) ELSE entries

\* if config.unique { results.dedup() }
deduped_if(config, entries) == IF config.unique THEN dedup(entries) ELSE entries

\* one turn of the loop over reader.lines(): a line that cannot be read ends
\* the loop at once
ReadLine ==
    /\ call.fn = "process_urls_streaming"
    /\ ret = None
    /\ reader # <<>>
    /\ IF ~Head(reader).ok
       THEN /\ reader' = <<>>
            /\ UNCHANGED <<results, stderr, ret>>
       ELSE \E r \in {line_outcome(call.config, trim(Head(reader).text),
                                   call.overflow_checks)} :
                IF r.panic
                THEN /\ ret' = Some(Panicked)
                     /\ UNCHANGED <<reader, results, stderr>>
                ELSE /\ reader' = Tail(reader)
                     /\ results' = results \o r.push
                     /\ stderr' = IF r.report = "" THEN stderr
                                  ELSE Append(stderr, [url |-> trim(Head(reader).text),
                                                       err |-> r.report])
                     /\ UNCHANGED ret
    /\ UNCHANGED <<call, parserVars, slots, stdout>>

\* the capacity of a BufWriter made by BufWriter::new
BUF_CAPACITY == 8192

\* what println! or writeln! writes for each of the lines: the line and a
\* line feed
RECURSIVE with_line_feeds(_)
with_line_feeds(lines) ==
    IF lines = <<>> THEN <<>>
    ELSE Head(lines) \o <<10>> \o with_line_feeds(Tail(lines))

\* the output of the entries.  writable: whether writes to standard output
\* succeed.  When they fail, println! inside output_json panics; the
\* BufWriter passes the failure on through writeln!(..)? only once it has
\* to flush, that is when the bytes exceed its capacity, and otherwise
\* flushes when dropped, where the failure is ignored
write_results(config, entries, writable) ==
    IF writable
    THEN [ret |-> Ok(<<>>),
          stdout |-> with_line_feeds(IF config.json THEN output_json(entries)
                                     ELSE entries)]
    ELSE IF config.json THEN [ret |-> Panicked, stdout |-> <<>>]
    ELSE IF Len(with_line_feeds(entries)) > BUF_CAPACITY
    THEN [ret |-> Err("IoError"), stdout |-> <<>>]
    ELSE [ret |-> Ok(<<>>), stdout |-> <<>>]

\* the input is exhausted: sort, dedup, print, return
EndOfInput ==
    /\ call.fn = "process_urls_streaming"
    /\ ret = None
    /\ reader = <<>>
    /\ results' = deduped_if(call.config, sorted_if(call.config, results))
    /\ \E w \in {write_results(call.config, results', call.stdout_writable)} :
           /\ stdout' = w.stdout
           /\ ret' = Some(w.ret)
    /\ UNCHANGED <<call, parserVars, slots, reader, stderr>>

\* the ways Config::from_args() ends: clap has made a Config of the
\* arguments of the process, of which check_for_stdin reads the urls; or it
\* has written a text and ended the process, with status 0 after the help
\* or the version text, which go to standard output, and with status 2
\* after the message on an argument it refuses, which goes to standard error
Parsed(urls) == [exit |-> None, urls |-> urls]
Exits(status, text) == [exit |-> Some(status), text |-> text]

\* config::check_for_stdin.  Standard input not a terminal: Ok, and
\* Config::from_args() is not called.  Otherwise it is called, and may end
\* the process; when it gives a Config without URLs the function writes its
\* own message to standard error and ends the process with status 1
CheckForStdin ==
    /\ call.fn = "check_for_stdin"
    /\ ret = None
    /\ IF ~call.is_terminal
       THEN /\ ret' = Some(Ok(<<>>))
            /\ UNCHANGED <<stdout, stderr>>
       ELSE IF call.from_args.exit # None
       THEN /\ ret' = Some([err |-> "Exit", val |-> call.from_args.exit[1]])
            /\ stdout' = IF call.from_args.exit[1] = 0
                         THEN stdout \o call.from_args.text
                         ELSE stdout
            /\ stderr' = IF call.from_args.exit[1] = 0 THEN stderr
                         ELSE Append(stderr, [url |-> <<>>, err |-> "clap::Error",
                                              text |-> call.from_args.text])
       ELSE IF call.from_args.urls = <<>>
       THEN /\ stderr' = Append(stderr, [url |-> <<>>,
                                         err |-> "No input URLs provided"])
            /\ ret' = Some([err |-> "Exit", val |-> 1])
            /\ UNCHANGED stdout
       ELSE /\ ret' = Some(Ok(<<>>))
            /\ UNCHANGED <<stdout, stderr>>
    /\ UNCHANGED <<call, parserVars, slots, reader, results>>

MaxLines == 3

Line(text) == [ok |-> TRUE, text |-> text]

\* "b.ex.co", U+00A0 "a.ex.co ", "ex.co", "h:8-", " " U+2003, and a line that
\* cannot be read
StreamLines ==
    {Line(<<98, 46, 101, 120, 46, 99, 111>>),
     Line(<<194, 160, 97, 46, 101, 120, 46, 99, 111, 32>>),
     Line(<<101, 120, 46, 99, 111>>),
     Line(<<104, COLON, 56, 45>>),
     Line(<<32, 226, 128, 131>>),
     [ok |-> FALSE, text |-> <<>>]}

StreamConfigs ==
    {Config(base \cup order) :
        base \in {{"host"}, {"custom"}, {"domain", "json"}},
        order \in SUBSET {"sort", "unique"}}

StreamingCalls ==
    [fn : {"process_urls_streaming"},
     config : StreamConfigs,
     lines : UNION {[1..n -> StreamLines] : n \in 0..MaxLines},
     overflow_checks : BOOLEAN,
     stdout_writable : BOOLEAN]

\* what Config::from_args() may do: a Config with no URL, with "ex.co", with
\* "ex.co" and "b.ex.co"; the end of the process with status 0 after a text
\* ("rexturl 0.0.0" and a line feed stands for the version text, "Usage:"
\* and a line feed for the help text), and with status 2 after a message
\* ("error:" and a line feed stands for it)
FromArgs ==
    {Parsed(<<>>),
     Parsed(<< <<101, 120, 46, 99, 111>> >>),
     Parsed(<< <<101, 120, 46, 99, 111>>, <<98, 46, 101, 120, 46, 99, 111>> >>),
     Exits(0, <<114, 101, 120, 116, 117, 114, 108, 32, 48, 46, 48, 46, 48, 10>>),
     Exits(0, <<85, 115, 97, 103, 101, 58, 10>>),
     Exits(2, <<101, 114, 114, 111, 114, 58, 10>>)}

\* standard input a terminal or not, and what Config::from_args() does with
\* the arguments of the process
StdinCalls ==
    [fn : {"check_for_stdin"}, is_terminal : BOOLEAN, from_args : FromArgs]

InitStreaming ==
    /\ call \in StreamingCalls \cup StdinCalls
    /\ ret = None
    /\ ParserIdle
    /\ slots = <<>>
    /\ reader = IF call.fn = "process_urls_streaming" THEN call.lines ELSE <<>>
    /\ results = <<>>
    /\ stdout = <<>>
    /\ stderr = <<>>

NextStreaming ==
    \/ CheckForStdin
    \/ ReadLine
    \/ EndOfInput

SpecStreaming == InitStreaming /\ [][NextStreaming]_vars

\* C17: with config.unique set, no two of the entries process_urls_streaming
\* emits are equal, with config.sort and without it
C17_UniqueEmitsNoDuplicates ==
    (call.fn = "process_urls_streaming" /\ Returned /\ ret[1].err = ""
        /\ call.config.unique)
    => \A i, j \in 1..Len(results) : results[i] = results[j] => i = j

---------------------------------------------------------------------------
(* The order of the phases and the bytes of the components                 *)

\* C22: once the path has been recorded, the Path range starts at the end of
\* the authority span, and on an accepted input path() is "/" or begins
\* with '/'
C22_PathStartsAtAuthorityEnd ==
    parts # EmptyParts =>
        /\ pc = "finalize"
           => Range_start(get_range(ranges, PATH_IDX)) = AuthorityEnd
        /\ Accepted
           => (path(ParsedUrl) = <<SLASH>> \/ path(ParsedUrl)[1] = SLASH)

\* inputs that break the rule of one phase or of several: a scheme with a
\* good or a bad first byte or a space inside ("HTTP", "1TTP", "H TP"), a
\* whole or a broken marker, a host (runs of 'h', "[:"), a port token ("80",
\* "8a", "") and a tail
PhaseParts ==
    [scheme : {<<72, 84, 84, 80>>, <<49, 84, 84, 80>>, <<72, 32, 84, 80>>},
     marker : {Marker, <<COLON, SLASH, COLON>>, <<COLON>>},
     host : Reps(104, MaxHostLen) \cup {<<LBRACKET, COLON>>},
     port : OptionOf({<<56, 48>>, <<56, 97>>, <<>>}),
     tail : {<<>>, <<SLASH, 112, QUESTION, 113, HASH, 102>>}]

AssemblePhases(p) == p.scheme \o p.marker \o p.host \o Opt(COLON, p.port) \o p.tail

InitPhases == InitWith(PhaseParts, AssemblePhases)

SpecPhases == InitPhases /\ [][Next]_vars

\* the phase after each phase
NextPhase ==
    [parse |-> "scheme", scheme |-> "marker", marker |-> "authority",
     authority |-> "path", path |-> "finalize", finalize |-> "done"]

\* the error of the earliest phase whose rule the pieces break, or "Ok"
EarliestError(p) ==
    IF ~IsAsciiLetter(p.scheme[1]) THEN "InvalidScheme"
    ELSE IF \E i \in 1..Len(p.scheme) : ~IsSchemeCharacter(p.scheme[i])
    THEN "InvalidScheme"
    ELSE IF p.marker # Marker THEN "MalformedUrl"
    ELSE IF p.host = <<>> \/ p.host = <<LBRACKET, COLON>> THEN "InvalidHost"
    ELSE IF p.port # None /\ p.port[1] # <<56, 48>> THEN "InvalidPort"
    ELSE "Ok"

\* C23: the phases run in the order scheme, marker, authority, path,
\* finalization: each step leads to the next phase or ends the parse, nothing
\* runs after the end, the cursor never moves backwards, and the result is
\* the error of the earliest phase whose rule the input breaks
C23_PhasesInOrder ==
    /\ [][/\ pc # "done"
          /\ pc' \in {NextPhase[pc], "done"}
          /\ pc' = "done" /\ pc # "finalize" => result' # "Ok"
          /\ pos' >= pos]_vars
    /\ [](pc = "done" => result = EarliestError(parts))

---------------------------------------------------------------------------
(* Url::scan_to_path_query_fragment_simd and _static applied on their own  *)

MaxScanLen == 33

\* bytes of one filler ('a', '.', which is '/' with its lowest bit flipped,
\* or 0xFF) with one delimiter at the places of hits
ScanBytes(len, filler, delimiter, hits) ==
    [i \in 1..len |-> IF (i - 1) \in hits THEN delimiter ELSE filler]

\* the scan as parse_authority_hyper_optimized (wide) and the fallback
\* parser (byte-wise) call it: len is the length of the input
ScanToPathQueryFragment ==
    /\ call.fn = "scan_to_path_query_fragment"
    /\ ret = None
    /\ call.start <= Len(call.bytes)
    /\ \E wide \in BOOLEAN :
         ret' = Some([wide |-> wide,
                      at |-> IF wide
                             THEN scan_to_path_query_fragment_simd(
                                      call.bytes, call.start, Len(call.bytes))
                             ELSE scan_to_path_query_fragment_static(
                                      call.bytes, call.start, Len(call.bytes))])
    /\ UNCHANGED <<call, parserVars, batchVars>>

InitScan ==
    /\ call \in
        {[fn |-> "scan_to_path_query_fragment",
          bytes |-> ScanBytes(len, filler, delimiter, hits),
          start |-> start] :
            len \in 0..MaxScanLen, filler \in {97, 46, 255},
            delimiter \in {SLASH, QUESTION, HASH},
            hits \in {{}} \cup {{p, p + gap} : p \in 0..MaxScanLen, gap \in {0, 1, 16}},
            start \in {0, 1, 16, 17}}
    /\ ret = None
    /\ ParserIdle
    /\ BatchIdle

NextScan == ScanToPathQueryFragment

SpecScan == InitScan /\ [][NextScan]_vars

\* C24: the chunked scan and the byte-wise scan both return the least index
\* from start on whose byte is '/', '?' or '#', or the length when there is
\* none
C24_ChunkedScanEqualsBytewise ==
    (call.fn = "scan_to_path_query_fragment" /\ Returned) =>
        ret[1].at = FirstOf(call.bytes, call.start, Len(call.bytes),
                            {SLASH, QUESTION, HASH})

\* the chunked scan passed over a whole chunk without a delimiter and found
\* a '?' in a later one
C24_Witness ==
    /\ call.fn = "scan_to_path_query_fragment"
    /\ Returned
    /\ ret[1].wide
    /\ ret[1].at >= call.start + 16
    /\ ret[1].at + 16 <= Len(call.bytes)
    /\ At(call.bytes, ret[1].at) = QUESTION

---------------------------------------------------------------------------
(* The scanning loops of the parser, one action per turn of a loop.  call  *)
(* names the loop and its start, input holds the bytes, pos the cursor.    *)

Finish(v) ==
    /\ ret' = Some(v)
    /\ pc' = "done"

\* the statements before the loop
EnterLoop ==
    /\ call.fn = "loop"
    /\ pc = "enter"
    /\ CASE call.loop = "scheme" ->
              IF call.start >= Len(input) \/ ~is_ascii_alpha(At(input, call.start))
              THEN Finish(Err("InvalidScheme")) /\ UNCHANGED pos
              ELSE pc' = "scheme.words" /\ pos' = call.start + 1 /\ UNCHANGED ret
         [] call.loop = "authority" ->
              pc' = "authority.chunks" /\ pos' = call.start /\ UNCHANGED ret
         [] call.loop = "find" ->
              /\ pc' = IF Len(input) < 32 THEN "find.bytes" ELSE "find.chunks"
              /\ pos' = 0
              /\ UNCHANGED ret
         [] call.loop = "path" ->
              pc' = "path.bytes" /\ pos' = call.start /\ UNCHANGED ret
    /\ UNCHANGED <<input, parts, locals, ranges, flags, result, call, batchVars>>

\* scan_scheme_optimized: while pos + 8 <= bytes.len()
SchemeWords ==
    /\ pc = "scheme.words"
    /\ IF pos + 8 <= Len(input)
       THEN IF MaskNonZero(zero_byte_mask(
                    xor_repeated(Slice(input, pos, pos + 8), COLON)))
               /\ first_colon_in_word(input, pos) # None
            THEN Finish(Ok(first_colon_in_word(input, pos)[1])) /\ UNCHANGED pos
            ELSE pos' = pos + 8 /\ UNCHANGED <<pc, ret>>
       ELSE pc' = "scheme.bytes" /\ UNCHANGED <<pos, ret>>
    /\ UNCHANGED <<input, parts, locals, ranges, flags, result, call, batchVars>>

\* the byte loop of scan_scheme_optimized without its pos += 1
SchemeBytes_standing ==
    /\ pc = "scheme.bytes"
    /\ IF pos < Len(input)
       THEN IF At(input, pos) = COLON THEN Finish(Ok(pos)) /\ UNCHANGED pos
            ELSE IF ~is_scheme_char(At(input, pos))
            THEN Finish(Err("InvalidScheme")) /\ UNCHANGED pos
            ELSE UNCHANGED <<pos, pc, ret>>
       ELSE Finish(Err("InvalidScheme")) /\ UNCHANGED pos
    /\ UNCHANGED <<input, parts, locals, ranges, flags, result, call, batchVars>>

\* scan_scheme_optimized: while pos < bytes.len()
SchemeBytes ==
    /\ pc = "scheme.bytes"
    /\ IF pos < Len(input)
       THEN IF At(input, pos) = COLON THEN Finish(Ok(pos)) /\ UNCHANGED pos
            ELSE IF ~is_scheme_char(At(input, pos))
            THEN Finish(Err("InvalidScheme")) /\ UNCHANGED pos
            ELSE pos' = pos + 1 /\ UNCHANGED <<pc, ret>>
       ELSE Finish(Err("InvalidScheme")) /\ UNCHANGED pos
    /\ UNCHANGED <<input, parts, locals, ranges, flags, result, call, batchVars>>

\* scan_to_path_query_fragment_simd: while pos + 16 <= len
AuthorityChunks ==
    /\ pc = "authority.chunks"
    /\ IF pos + 16 <= Len(input)
       THEN IF MaskNonZero(MaskOr3(
                    create_char_mask_128(Slice(input, pos, pos + 16), SLASH),
                    create_char_mask_128(Slice(input, pos, pos + 16), QUESTION),
                    create_char_mask_128(Slice(input, pos, pos + 16), HASH)))
               /\ first_delimiter_in_chunk(input, pos) # None
            THEN Finish(first_delimiter_in_chunk(input, pos)[1]) /\ UNCHANGED pos
            ELSE pos' = pos + 16 /\ UNCHANGED <<pc, ret>>
       ELSE pc' = "authority.bytes" /\ UNCHANGED <<pos, ret>>
    /\ UNCHANGED <<input, parts, locals, ranges, flags, result, call, batchVars>>

\* scan_to_path_query_fragment_simd: while pos < len && !matches!(..)
AuthorityBytes ==
    /\ pc = "authority.bytes"
    /\ IF pos < Len(input) /\ ~IsPathQueryFragment(At(input, pos))
       THEN pos' = pos + 1 /\ UNCHANGED <<pc, ret>>
       ELSE Finish(pos) /\ UNCHANGED pos
    /\ UNCHANGED <<input, parts, locals, ranges, flags, result, call, batchVars>>

\* find_byte_simd: while offset + 32 <= haystack.len()
FindChunks ==
    /\ pc = "find.chunks"
    /\ IF pos + 32 <= Len(input)
       THEN IF movemask(input, pos, call.needle) # {}
            THEN /\ Finish(Some(pos + trailing_zeros(movemask(input, pos, call.needle))))
                 /\ UNCHANGED pos
            ELSE pos' = pos + 32 /\ UNCHANGED <<pc, ret>>
       ELSE pc' = "find.bytes" /\ UNCHANGED <<pos, ret>>
    /\ UNCHANGED <<input, parts, locals, ranges, flags, result, call, batchVars>>

\* find_byte_scalar on the rest: one step of position()
FindBytes ==
    /\ pc = "find.bytes"
    /\ IF pos >= Len(input) THEN Finish(None) /\ UNCHANGED pos
       ELSE IF At(input, pos) = call.needle THEN Finish(Some(pos)) /\ UNCHANGED pos
       ELSE pos' = pos + 1 /\ UNCHANGED <<pc, ret>>
    /\ UNCHANGED <<input, parts, locals, ranges, flags, result, call, batchVars>>

\* the fragment test that ends parse_path_components_bulk, with the cursor at
FragmentRecorded(rs, fl, at) ==
    IF at < Len(input) /\ At(input, at) = HASH /\ at + 1 < Len(input)
    THEN [ranges |-> set_range(rs, FRAGMENT_IDX, at + 1, Len(input)),
          flags |-> set_flag(fl, HAS_FRAGMENT)]
    ELSE [ranges |-> rs, flags |-> fl]

\* parse_path_components_bulk: the loop over the path, then the test for '?'
PathBytes ==
    /\ pc = "path.bytes"
    /\ IF pos < Len(input) /\ At(input, pos) # QUESTION /\ At(input, pos) # HASH
       THEN pos' = pos + 1 /\ UNCHANGED <<pc, ret, ranges, flags, locals>>
       ELSE IF pos < Len(input) /\ At(input, pos) = QUESTION
       THEN /\ ranges' = set_range(ranges, PATH_IDX, call.start, pos)
            /\ pos' = pos + 1
            /\ locals' = [query_start |-> pos + 1]
            /\ pc' = "query.bytes"
            /\ UNCHANGED <<ret, flags>>
       ELSE \E f \in {FragmentRecorded(set_range(ranges, PATH_IDX, call.start, pos),
                                       flags, pos)} :
                /\ ranges' = f.ranges
                /\ flags' = f.flags
                /\ Finish(pos)
                /\ UNCHANGED <<pos, locals>>
    /\ UNCHANGED <<input, parts, result, call, batchVars>>

\* parse_path_components_bulk: the loop over the query, then the fragment
QueryBytes ==
    /\ pc = "query.bytes"
    /\ IF pos < Len(input) /\ At(input, pos) # HASH
       THEN pos' = pos + 1 /\ UNCHANGED <<pc, ret, ranges, flags>>
       ELSE \E f \in {FragmentRecorded(
                          IF locals.query_start < pos
                          THEN set_range(ranges, QUERY_IDX, locals.query_start, pos)
                          ELSE ranges,
                          IF locals.query_start < pos
                          THEN set_flag(flags, HAS_QUERY) ELSE flags,
                          pos)} :
                /\ ranges' = f.ranges
                /\ flags' = f.flags
                /\ Finish(pos)
                /\ UNCHANGED pos
    /\ UNCHANGED <<input, parts, locals, result, call, batchVars>>

NextLoops ==
    \/ EnterLoop
    \/ SchemeWords
    \/ SchemeBytes
    \/ AuthorityChunks
    \/ AuthorityBytes
    \/ FindChunks
    \/ FindBytes
    \/ PathBytes
    \/ QueryBytes

MaxLoopLen == 34

\* runs of 'A' with at most one other byte, at a place next to the edge of
\* a word or of a chunk
LoopCalls ==
    [fn : {"loop"}, loop : {"scheme", "authority", "find", "path"},
     start : {0, 1}, needle : {COLON}]

InitLoops ==
    /\ call \in LoopCalls
    /\ input \in
        {[i \in 1..len |-> IF i - 1 = p THEN b ELSE 65] :
            len \in {0, 1, 9, 17, MaxLoopLen - 1, MaxLoopLen},
            p \in {-1, 0, 8, 16, 32, 33},
            b \in {COLON, QUESTION, HASH, 32}}
    /\ call.start <= Len(input)
    /\ call.loop = "find" => call.start = 0
    /\ parts = EmptyParts
    /\ locals = NoLocals
    /\ pc = "enter"
    /\ pos = 0
    /\ ranges = EmptyRanges
    /\ flags = 0
    /\ result = ""
    /\ ret = None
    /\ BatchIdle

\* Url::parse with its phases, and each scanning loop turn by turn; every
\* step that can be taken is taken in the end
SpecTermination ==
    /\ InitPhases \/ InitLoops
    /\ [][Next \/ NextLoops]_vars
    /\ WF_vars(Next \/ NextLoops)

\* the place of a phase or of a loop in the order they run in
Rank(p) ==
    CASE p \in {"parse", "enter"} -> 0
      [] p \in {"scheme", "scheme.words", "authority.chunks", "find.chunks"} -> 1
      [] p \in {"marker", "scheme.bytes", "authority.bytes", "find.bytes",
                "path.bytes"} -> 2
      [] p \in {"authority", "query.bytes"} -> 3
      [] p = "path" -> 4
      [] p = "finalize" -> 5
      [] p = "done" -> 6

\* a loop that has ended has computed what the function of the parser does
LoopAgrees ==
    (call.fn = "loop" /\ pc = "done") =>
        CASE call.loop = "scheme" ->
                 ret[1] = scan_scheme_optimized(input, call.start)
          [] call.loop = "authority" ->
                 ret[1] = scan_to_path_query_fragment_simd(input, call.start,
                                                           Len(input))
          [] call.loop = "find" -> ret[1] = find_byte_simd(input, call.needle)
          [] call.loop = "path" ->
                 /\ ranges = parse_path_components_bulk(
                                 input, call.start, Len(input), EmptyRanges, 0).ranges
                 /\ flags = parse_path_components_bulk(
                                input, call.start, Len(input), EmptyRanges, 0).flags

\* C25: every parse and every scanning loop ends: a turn of a loop moves its
\* cursor forward, the cursor stays within the input, and no phase or loop is
\* entered again once it has been left
C25_ParseTerminates ==
    /\ [][/\ pc' = pc => pos' > pos
          /\ pc' # pc => Rank(pc') > Rank(pc)
          /\ pos' <= Len(input)]_vars
    /\ []LoopAgrees
    /\ <>(pc = "done")

\* a scheme scan whose word loop and byte loop both turned before the ':'
C25_Witness ==
    /\ call.fn = "loop"
    /\ call.loop = "scheme"
    /\ pc = "done"
    /\ ret = Some(Ok(33))

---------------------------------------------------------------------------
(* process_urls_streaming line by line                                     *)

\* the line process_urls_streaming is about to handle, trimmed
CurrentLine == trim(Head(reader).text)

\* C26: process_urls_streaming handles its lines in order: a line that is
\* empty after trimming adds nothing, a line that fails to parse adds nothing
\* and the next line is handled after it, a line adds at most one result
\* after those of the lines before it, and the function returns Ok when
\* standard output can be written
C26_FailingLineIsSkipped ==
    /\ [][(call.fn = "process_urls_streaming" /\ reader # <<>> /\ Head(reader).ok)
          => /\ reader' = Tail(reader)
             /\ \/ results' = results
                \/ /\ Len(results') = Len(results) + 1
                   /\ SubSeq(results', 1, Len(results)) = results
             /\ CurrentLine = <<>> => results' = results
             /\ parse_url(CurrentLine, call.overflow_checks).err # ""
                => results' = results]_vars
    /\ []((call.fn = "process_urls_streaming" /\ Returned /\ call.stdout_writable)
          => ret[1] = Ok(<<>>))

---------------------------------------------------------------------------
(* Inputs longer than a 16-bit offset can tell                             *)

MaxExcess == 9

\* "HTTP://", a host of 'h', and "", "/p" or "?q".  The host has up to
\* MaxExcess bytes, or 65529 bytes (an input of 65536 bytes), or
\* 65529 + MaxExcess
LongCalls ==
    [fn : {"Url::parse"},
     host_len : (0..MaxExcess) \cup {65529, 65529 + MaxExcess},
     tail : {<<>>, <<SLASH, 112>>, <<QUESTION, 113>>},
     overflow_checks : BOOLEAN]

AssembleLong(p) ==
    <<72, 84, 84, 80>> \o Marker \o [i \in 1..p.host_len |-> 104] \o p.tail

\* Url::parse applied to the text of the call: the error, or "" with the
\* ranges and flags of the parsed URL
UrlParse ==
    /\ call.fn = "Url::parse"
    /\ pc = "idle"
    /\ ret = None
    /\ \E r \in {Url_parse(AssembleLong(call), call.overflow_checks)} :
           ret' = Some([err |-> r.err, ranges |-> r.ranges, flags |-> r.flags])
    /\ UNCHANGED <<call, parserVars, batchVars>>

InitLong == InitCall(LongCalls)

NextLong == UrlParse

SpecLong == InitLong /\ [][NextLong]_vars

\* the offsets of the host in the text of the call
LongHostStart == Len(<<72, 84, 84, 80>> \o Marker)

LongHostEnd == LongHostStart + call.host_len

\* C27: an input longer than 65,535 bytes is not refused for its length, and
\* each range it stores holds the offsets of its component modulo 2^16
C27_NoLengthCheck ==
    (call.fn = "Url::parse" /\ Returned
        /\ LongHostEnd + Len(call.tail) > 65535 /\ call.host_len > 0)
    => /\ ret[1].err = ""
       /\ get_range(ret[1].ranges, HOST_IDX)
          = <<LongHostStart % 65536, LongHostEnd % 65536>>
       /\ call.tail = <<SLASH, 112>>
          => get_range(ret[1].ranges, PATH_IDX)
             = <<LongHostEnd % 65536, (LongHostEnd + 2) % 65536>>

---------------------------------------------------------------------------
(* Range::new and the accessors of Range                                   *)

MaxEdge == 3

\* offsets next to 0, to the byte and sign boundaries, and to 65535 on
\* either side
RangeOffsets ==
    (0..MaxEdge) \cup {65535 - k : k \in 0..MaxEdge}
    \cup {65535 + k : k \in 1..MaxEdge}
    \cup {255, 256, 32767, 32768}

RangeCalls ==
    [fn : {"Range::new"}, start : RangeOffsets, end : RangeOffsets,
     debug_assertions : BOOLEAN]

\* Range::new(start, end), then start(), end(), is_empty() and len() of it
RangeNew ==
    /\ call.fn = "Range::new"
    /\ ret = None
    /\ \E r \in {Range_new(call.start, call.end, call.debug_assertions)} :
           ret' = Some([err |-> r.err,
                        start |-> Range_start(r.val), end |-> Range_end(r.val),
                        is_empty |-> Range_is_empty(r.val),
                        len |-> Range_len(r.val)])
    /\ UNCHANGED <<call, parserVars, batchVars>>

InitRange == InitCall(RangeCalls)

NextRange == RangeNew

SpecRange == InitRange /\ [][NextRange]_vars

\* C28: for start and end up to 65535, Range::new(start, end) gives back start
\* and end, is empty exactly when start >= end, and has the length end - start
\* when start < end and 0 otherwise
C28_RangeRoundTrip ==
    (call.fn = "Range::new" /\ Returned /\ call.start <= 65535 /\ call.end <= 65535) =>
        /\ ret[1].err = ""
        /\ ret[1].start = call.start
        /\ ret[1].end = call.end
        /\ ret[1].is_empty <=> call.start >= call.end
        /\ ret[1].len = IF call.start < call.end THEN call.end - call.start ELSE 0

\* the widest range, and a range whose start equals its end
C28_Witness ==
    /\ call.fn = "Range::new"
    /\ Returned
    /\ call.debug_assertions
    /\ ret[1].err = ""
    /\ \/ ret[1].len = 65535
       \/ call.start = 65535 /\ call.end = 65535 /\ ret[1].is_empty

---------------------------------------------------------------------------
(* The stored ranges as a partition of the input                           *)

\* the components whose stored range is not empty
StoredComponents == {i \in 0..7 : ~Range_is_empty(get_range(ranges, i))}

\* the order of the components in a URL; the range array holds host before
\* port before path, and username and password before host
ComponentOrder ==
    <<SCHEME_IDX, USERNAME_IDX, PASSWORD_IDX, HOST_IDX, PORT_IDX, PATH_IDX,
      QUERY_IDX, FRAGMENT_IDX>>

\* offset k (from 0) lies in the stored range of component i
Covers(i, k) ==
    /\ Range_start(get_range(ranges, i)) <= k
    /\ k < Range_end(get_range(ranges, i))

\* the offsets of the "://" marker, right after the scheme
MarkerOffsets ==
    {k \in 0..(Len(input) - 1) :
        /\ k - Range_end(get_range(ranges, SCHEME_IDX)) \in 0..2
        /\ input[k + 1] = Marker[k - Range_end(get_range(ranges, SCHEME_IDX)) + 1]}

\* the bytes no stored range covers, the marker left out, in input order
UncoveredBytes ==
    SelectSeq([k \in 1..Len(input) |->
                   IF \/ \E i \in StoredComponents : Covers(i, k - 1)
                      \/ (k - 1) \in MarkerOffsets
                   THEN 0 ELSE input[k]],
              LAMBDA b : b # 0)

\* ':' between username and password, '@', ':' before the port, '?', '#':
\* each at most once, in this order, the first only with an '@'
ConsumedDelimiters ==
    {SelectSeq(<<IF c1 THEN COLON ELSE 0, IF a THEN AT_SIGN ELSE 0,
                 IF c2 THEN COLON ELSE 0, IF q THEN QUESTION ELSE 0,
                 IF h THEN HASH ELSE 0>>, LAMBDA b : b # 0) :
        <<c1, a, c2, q, h>> \in {t \in BOOLEAN \X BOOLEAN \X BOOLEAN \X BOOLEAN \X BOOLEAN :
                                    t[1] => t[2]}}

\* C29: of an accepted input the non-empty stored ranges lie within the input,
\* are pairwise disjoint and in component order, and every byte outside them
\* is a consumed delimiter: the "://" marker, the ':' between username and
\* password, the '@', the ':' before the port, the '?' or the '#'
C29_RangesPartitionInput ==
    Accepted =>
        /\ \A i \in StoredComponents :
               Range_end(get_range(ranges, i)) <= Len(input)
        /\ \A m, n \in 1..8 :
               (m < n /\ ComponentOrder[m] \in StoredComponents
                      /\ ComponentOrder[n] \in StoredComponents)
               => Range_end(get_range(ranges, ComponentOrder[m]))
                      <= Range_start(get_range(ranges, ComponentOrder[n]))
        /\ Cardinality(MarkerOffsets) = 3
        /\ \A k \in MarkerOffsets : \A i \in StoredComponents : ~Covers(i, k)
        /\ UncoveredBytes \in ConsumedDelimiters

\* every component stored, every delimiter consumed
C29_Witness ==
    /\ Accepted
    /\ StoredComponents = 0..7
    /\ UncoveredBytes = <<COLON, AT_SIGN, COLON, QUESTION, HASH>>

---------------------------------------------------------------------------
(* output::custom_format_url on values that hold placeholder text          *)

\* "HTTP://" host path, "?" query and "#" fragment when there are any
AssembleFormatUrl(p) ==
    <<72, 84, 84, 80>> \o Marker \o p.host \o p.path
    \o (IF p.query = None THEN <<>> ELSE <<QUESTION>> \o p.query[1])
    \o (IF p.fragment = None THEN <<>> ELSE <<HASH>> \o p.fragment[1])

\* hosts "h" and "ex.co"; paths "", "/p", "/{query}", "/{fragment}"; queries
\* "q", "{fragment}", "{path}"; fragments "f", "{path}"; and ":", which
\* does not parse
FormatUrls ==
    {<<COLON>>} \cup
    {AssembleFormatUrl(p) :
        p \in [host : {<<104>>, <<101, 120, 46, 99, 111>>},
               path : {<<>>, <<SLASH, 112>>, <<SLASH>> \o PLACEHOLDER.query,
                       <<SLASH>> \o PLACEHOLDER.fragment},
               query : OptionOf({<<113>>, PLACEHOLDER.fragment, PLACEHOLDER.path}),
               fragment : OptionOf({<<102>>, PLACEHOLDER.path})]}

\* the default format, "{path}", "{path}?{query}", "{query}{path}",
\* "{fragment}-{query}-{path}", "{host}{hostname}{port}", "{domain}{pa{path}"
Formats ==
    {DEFAULT_FORMAT,
     PLACEHOLDER.path,
     PLACEHOLDER.path \o <<QUESTION>> \o PLACEHOLDER.query,
     PLACEHOLDER.query \o PLACEHOLDER.path,
     PLACEHOLDER.fragment \o <<45>> \o PLACEHOLDER.query \o <<45>> \o PLACEHOLDER.path,
     PLACEHOLDER.host \o PLACEHOLDER.hostname \o PLACEHOLDER.port,
     PLACEHOLDER.domain \o <<123, 112, 97>> \o PLACEHOLDER.path}

FormatCalls == [fn : {"custom_format_url"}, url_str : FormatUrls, format : Formats]

\* output::custom_format_url, in a build with or without overflow checks
CustomFormatUrl ==
    /\ call.fn = "custom_format_url"
    /\ ret = None
    /\ \E overflow_checks \in BOOLEAN :
           \E value \in {custom_format_url(call.url_str, call.format,
                                           overflow_checks)} :
               /\ ret' = Some([overflow_checks |-> overflow_checks, value |-> value])
               /\ stderr' = IF value.err \in {"", "Panic"} THEN stderr
                            ELSE Append(stderr, [url |-> call.url_str,
                                                 err |-> value.err])
    /\ UNCHANGED <<call, parserVars, slots, reader, results, stdout>>

InitFormat == InitCall(FormatCalls)

NextFormat == CustomFormatUrl

SpecFormat == InitFormat /\ [][NextFormat]_vars

\* the component each placeholder stands for
PlaceholderValue(components) ==
    [scheme |-> components.scheme, username |-> components.username,
     subdomain |-> components.subdomain, host |-> components.hostname,
     hostname |-> components.hostname, domain |-> components.domain,
     port |-> components.port, path |-> components.path,
     query |-> components.query, fragment |-> components.fragment]

\* the format read once from left to right: a placeholder found in it gives
\* its value, any other byte gives itself; the values are not read again
RECURSIVE SubstituteOnce(_, _, _)
SubstituteOnce(format, at, values) ==
    IF at >= Len(format) THEN <<>>
    ELSE LET found == {k \in DOMAIN PLACEHOLDER :
                          /\ at + Len(PLACEHOLDER[k]) <= Len(format)
                          /\ Slice(format, at, at + Len(PLACEHOLDER[k])) = PLACEHOLDER[k]}
         IN  IF found = {} THEN <<At(format, at)>> \o SubstituteOnce(format, at + 1, values)
             ELSE LET k == CHOOSE k \in found : TRUE
                  IN  values[k] \o SubstituteOnce(format, at + Len(PLACEHOLDER[k]), values)

\* C30: the output of custom_format_url is the format with every placeholder
\* replaced by its component value in one simultaneous substitution;
\* placeholder text that comes from a component value is emitted as it is
C30_SimultaneousSubstitution ==
    (call.fn = "custom_format_url" /\ Returned /\ ret[1].value.err = "") =>
        \E parsed \in {parse_url(call.url_str, ret[1].overflow_checks)} :
            ret[1].value.out
            = SubstituteOnce(call.format, 0,
                             PlaceholderValue(extract_url_components(parsed.val)))

---------------------------------------------------------------------------
(* formatter: parse_template, parse_field_spec, render_template,            *)
(* print_custom                                                            *)

BANG == 33
LBRACE == 123
RBRACE == 125
QUOTE == 39
DQUOTE == 34

\* the names get_field and is_valid_field_name match on, as bytes
FIELD_NAME ==
    [k \in DOMAIN PLACEHOLDER \cup {"url"} |->
        IF k = "url" THEN <<117, 114, 108>>
        ELSE Slice(PLACEHOLDER[k], 1, Len(PLACEHOLDER[k]) - 1)]

is_valid_field_name(name) == \E k \in DOMAIN FIELD_NAME : FIELD_NAME[k] = name

\* UrlRecord::get_field
get_field(record, field) ==
    IF is_valid_field_name(field)
    THEN record[CHOOSE k \in DOMAIN FIELD_NAME : FIELD_NAME[k] = field]
    ELSE None

\* str::split_once on a one-byte delimiter
split_once(text, delimiter) ==
    IF find_byte_scalar(text, delimiter) = None THEN None
    ELSE Some(<<Slice(text, 0, find_byte_scalar(text, delimiter)[1]),
                Slice(text, find_byte_scalar(text, delimiter)[1] + 1, Len(text))>>)

TextToken(text) ==
    [text |-> text, is_field |-> FALSE, field_name |-> None,
     default_value |-> None, conditional_present |-> None,
     conditional_missing |-> None]

\* the token of the field name and the three optional texts, or the error
FieldToken(field_name, default_value, conditional_present, conditional_missing) ==
    IF ~is_valid_field_name(field_name)
    THEN [err |-> "Invalid field name", val |-> field_name]
    ELSE [err |-> "",
          val |-> [text |-> <<>>, is_field |-> TRUE, field_name |-> Some(field_name),
                   default_value |-> default_value,
                   conditional_present |-> conditional_present,
                   conditional_missing |-> conditional_missing]]

parse_field_spec(spec) ==
    IF split_once(spec, COLON) # None
    THEN FieldToken(split_once(spec, COLON)[1][1],
                    Some(split_once(spec, COLON)[1][2]), None, None)
    ELSE IF split_once(spec, QUESTION) # None
    THEN FieldToken(split_once(spec, QUESTION)[1][1], None,
                    Some(split_once(spec, QUESTION)[1][2]), None)
    ELSE IF split_once(spec, BANG) # None
    THEN FieldToken(split_once(spec, BANG)[1][1], None, None,
                    Some(split_once(spec, BANG)[1][2]))
    ELSE FieldToken(spec, None, None, None)

\* the inner loop of parse_template: the field spec up to the brace that
\* closes the one at the start, and the offset after it
RECURSIVE scan_field_spec(_, _, _, _)
scan_field_spec(template, at, brace_count, field_spec) ==
    IF at >= Len(template) THEN [spec |-> field_spec, next |-> at]
    ELSE IF At(template, at) = LBRACE
    THEN scan_field_spec(template, at + 1, brace_count + 1,
                         Append(field_spec, LBRACE))
    ELSE IF At(template, at) = RBRACE
    THEN IF brace_count - 1 = 0 THEN [spec |-> field_spec, next |-> at + 1]
         ELSE scan_field_spec(template, at + 1, brace_count - 1,
                              Append(field_spec, RBRACE))
    ELSE scan_field_spec(template, at + 1, brace_count,
                         Append(field_spec, At(template, at)))

push_text(tokens, current_text) ==
    IF current_text # <<>> THEN Append(tokens, TextToken(current_text)) ELSE tokens

\* the outer loop of parse_template
RECURSIVE parse_template_from(_, _, _, _)
parse_template_from(template, at, current_text, tokens) ==
    IF at >= Len(template)
    THEN [err |-> "", val |-> push_text(tokens, current_text)]
    ELSE IF At(template, at) = LBRACE
    THEN LET scanned == scan_field_spec(template, at + 1, 1, <<>>)
             token == parse_field_spec(scanned.spec)
         IN  IF token.err # "" THEN token
             ELSE parse_template_from(template, scanned.next, <<>>,
                                      Append(push_text(tokens, current_text),
                                             token.val))
    ELSE parse_template_from(template, at + 1,
                             Append(current_text, At(template, at)), tokens)

parse_template(template) == parse_template_from(template, 0, <<>>, <<>>)

contains_any(value, bytes) == \E i \in 1..Len(value) : value[i] \in bytes

\* the bytes of " \t\n\r\"'\\$`(){}[]|&;<>"
SHELL_SPECIAL ==
    {32, 9, 10, 13, 34, 39, 92, 36, 96, 40, 41, 123, 125, 91, 93, 124, 38, 59, 60, 62}

shell_escape(value) ==
    IF contains_any(value, SHELL_SPECIAL)
    THEN <<QUOTE>> \o replace(value, <<QUOTE>>, <<QUOTE, DQUOTE, QUOTE, DQUOTE, QUOTE>>)
         \o <<QUOTE>>
    ELSE value

csv_escape(value) ==
    IF contains_any(value, {44, DQUOTE, 10})
    THEN <<DQUOTE>> \o replace(value, <<DQUOTE>>, <<DQUOTE, DQUOTE>>) \o <<DQUOTE>>
    ELSE value

json_escape(value) == json_string(value)

sql_escape(value) == <<QUOTE>> \o replace(value, <<QUOTE>>, <<QUOTE, QUOTE>>) \o <<QUOTE>>

EscapeModes == {"None", "Shell", "Csv", "Json", "Sql"}

escape_value(value, mode) ==
    CASE mode = "None" -> value
      [] mode = "Shell" -> shell_escape(value)
      [] mode = "Csv" -> csv_escape(value)
      [] mode = "Json" -> json_escape(value)
      [] mode = "Sql" -> sql_escape(value)

\* render_template's loop body with the conditional texts escaped too
render_token_escaping_all(token, record, escape_mode) ==
    IF ~token.is_field THEN token.text
    ELSE IF token.field_name = None THEN <<>>
    ELSE IF get_field(record, token.field_name[1]) # None
    THEN IF token.conditional_present # None
         THEN escape_value(token.conditional_present[1], escape_mode)
         ELSE escape_value(get_field(record, token.field_name[1])[1], escape_mode)
    ELSE IF token.conditional_missing # None
    THEN escape_value(token.conditional_missing[1], escape_mode)
    ELSE IF token.default_value # None
    THEN escape_value(token.default_value[1], escape_mode)
    ELSE <<>>

\* what one token adds to the output: the body of render_template's loop
render_token(token, record, escape_mode) ==
    IF ~token.is_field THEN token.text
    ELSE IF token.field_name = None THEN <<>>
    ELSE IF get_field(record, token.field_name[1]) # None
    THEN IF token.conditional_present # None
         THEN token.conditional_present[1]
         ELSE escape_value(get_field(record, token.field_name[1])[1], escape_mode)
    ELSE IF token.conditional_missing # None
    THEN token.conditional_missing[1]
    ELSE IF token.default_value # None
    THEN escape_value(token.default_value[1], escape_mode)
    ELSE <<>>

RECURSIVE render_template(_, _, _)
render_template(tokens, record, escape_mode) ==
    IF tokens = <<>> THEN <<>>
    ELSE render_token(Head(tokens), record, escape_mode)
         \o render_template(Tail(tokens), record, escape_mode)

MaxTextLen == 2

\* the texts d and x of a field: every text over 'x' ':' '?' '!', and "{'}"
TemplateTexts ==
    SeqsUpTo({120, COLON, QUESTION, BANG}, MaxTextLen) \cup {<<LBRACE, QUOTE, RBRACE>>}

\* "{f}", "{f:d}", "{f?x}" and "{f!x}" for the fields port and query
FieldPieces ==
    [name : {"port", "query"}, kind : {"plain"}, text : {<<>>}]
    \cup [name : {"port", "query"}, kind : {"default", "present", "missing"},
          text : TemplateTexts]

KIND_DELIMITER == [default |-> COLON, present |-> QUESTION, missing |-> BANG]

AssembleField(f) ==
    <<LBRACE>> \o FIELD_NAME[f.name]
    \o (IF f.kind = "plain" THEN <<>> ELSE <<KIND_DELIMITER[f.kind]>> \o f.text)
    \o <<RBRACE>>

\* literal text "a}" or none, a field, then none, literal ": " or "{scheme}"
TemplateParts ==
    [before : {<<>>, <<97, RBRACE>>},
     field : FieldPieces,
     after : {<<>>, <<COLON, 32>>, PLACEHOLDER.scheme}]

AssembleTemplate(p) == p.before \o AssembleField(p.field) \o p.after

\* UrlRecord::new() with scheme "f", and with port "80" or with query
\* "a',b": a template of TemplateParts reads one of the two fields, which
\* each of the records has or lacks
Records ==
    {[k \in DOMAIN FIELD_NAME |->
         CASE k = "scheme" -> Some(<<102>>)
           [] k = "port" -> pq[1]
           [] k = "query" -> pq[2]
           [] OTHER -> None] :
        pq \in {<<Some(<<56, 48>>), None>>, <<None, Some(<<97, QUOTE, 44, 98>>)>>}}

MaxRecords == 2

\* the capacity of the line buffer of std::io::Stdout
LINE_CAPACITY == 1024

\* println!(text) when line_feed, else print!(text).  writable: whether
\* writes to standard output succeed.  When they fail, println! panics, and
\* print! panics once the text has to leave the line buffer, that is when
\* it holds a line feed or does not fit; text left in the buffer is lost
\* without an error
print(text, line_feed, writable) ==
    IF writable
    THEN [panic |-> FALSE, stdout |-> text \o (IF line_feed THEN <<10>> ELSE <<>>)]
    ELSE [panic |-> line_feed \/ contains_any(text, {10}) \/ Len(text) >= LINE_CAPACITY,
          stdout |-> <<>>]

PrintCustomCalls ==
    [fn : {"print_custom"}, parts : TemplateParts,
     records : UNION {[1..n -> Records] : n \in 0..MaxRecords},
     escape_mode : EscapeModes, no_newline : BOOLEAN, stdout_writable : BOOLEAN]

\* print_custom begins: parse_template(template)?, after which the locals
\* are the tokens and the count i of the records printed
ParseTemplate ==
    /\ call.fn = "print_custom"
    /\ ret = None
    /\ locals = NoLocals
    /\ \E parsed \in {parse_template(AssembleTemplate(call.parts))} :
           IF parsed.err # ""
           THEN ret' = Some(parsed) /\ UNCHANGED locals
           ELSE locals' = [parsed_template |-> parsed.val, i |-> 0] /\ UNCHANGED ret
    /\ UNCHANGED <<input, parts, pc, pos, ranges, flags, result, call, batchVars>>

\* one turn of print_custom's loop: the record is rendered and printed, with
\* print! when it is the last one under no_newline and with println!
\* otherwise
PrintRecord ==
    /\ call.fn = "print_custom"
    /\ ret = None
    /\ locals # NoLocals
    /\ locals.i < Len(call.records)
    /\ \E printed \in {print(render_template(locals.parsed_template,
                                             call.records[locals.i + 1],
                                             call.escape_mode),
                             ~(call.no_newline /\ locals.i + 1 = Len(call.records)),
                             call.stdout_writable)} :
           IF printed.panic
           THEN ret' = Some(Panicked) /\ UNCHANGED <<locals, stdout>>
           ELSE /\ stdout' = stdout \o printed.stdout
                /\ locals' = [locals EXCEPT !.i = locals.i + 1]
                /\ UNCHANGED ret
    /\ UNCHANGED <<input, parts, pc, pos, ranges, flags, result, call,
                   slots, reader, results, stderr>>

\* the loop has ended: print_custom returns Ok(())
PrintCustomReturn ==
    /\ call.fn = "print_custom"
    /\ ret = None
    /\ locals # NoLocals
    /\ locals.i = Len(call.records)
    /\ ret' = Some(Ok(<<>>))
    /\ UNCHANGED <<call, parserVars, batchVars>>

---------------------------------------------------------------------------
(* formatter: print_plain, print_tabular, print_json, print_jsonl,         *)
(* print_sql                                                               *)

\* [String]::join(separator)
RECURSIVE join_with(_, _)
join_with(pieces, separator) ==
    IF Len(pieces) = 0 THEN <<>>
    ELSE IF Len(pieces) = 1 THEN pieces[1]
    ELSE pieces[1] \o separator \o join_with(Tail(pieces), separator)

select_fields(record, fields, null_value) ==
    [k \in 1..Len(fields) |->
        IF get_field(record, fields[k]) # None THEN get_field(record, fields[k])[1]
        ELSE null_value]

\* the keys of the serde_json::Map a record gives under the fields: each
\* field the record has a value of, once, in the order of String
RECURSIVE map_keys(_)
map_keys(keys) ==
    IF keys = {} THEN <<>>
    ELSE LET first == CHOOSE k \in keys : \A o \in keys \ {k} : string_less(k, o)
         IN  <<first>> \o map_keys(keys \ {first})

field_map(record, fields) ==
    map_keys({fields[k] : k \in {j \in 1..Len(fields) : get_field(record, fields[j]) # None}})

\* serde_json::to_string of the map: {"key":"value",...}
object_to_string(record, fields) ==
    <<LBRACE>>
    \o join_with([k \in 1..Len(field_map(record, fields)) |->
                     json_string(field_map(record, fields)[k]) \o <<COLON>>
                     \o json_string(get_field(record, field_map(record, fields)[k])[1])],
                 <<44>>)
    \o <<RBRACE>>

\* the map inside serde_json::to_string_pretty of the wrapper: the opening
\* brace, six blanks before each "key": "value", four before the closing
\* brace, and {} for the map without keys
object_to_string_pretty(record, fields) ==
    IF field_map(record, fields) = <<>> THEN <<LBRACE, RBRACE>>
    ELSE <<LBRACE, 10>>
         \o join_with([k \in 1..Len(field_map(record, fields)) |->
                          <<32, 32, 32, 32, 32, 32>>
                          \o json_string(field_map(record, fields)[k]) \o <<COLON, 32>>
                          \o json_string(get_field(record, field_map(record, fields)[k])[1])],
                      <<44, 10>>)
         \o <<10, 32, 32, 32, 32, RBRACE>>

\* serde_json::to_string(&UrlsWrapper { urls }): {"urls":[...]}
wrapper_to_string(records, fields) ==
    <<123, 34, 117, 114, 108, 115, 34, 58, 91>>
    \o join_with([k \in 1..Len(records) |-> object_to_string(records[k], fields)], <<44>>)
    \o <<93, RBRACE>>

\* serde_json::to_string_pretty(&UrlsWrapper { urls }): two blanks a level
wrapper_to_string_pretty(records, fields) ==
    IF records = <<>>
    THEN <<123, 10, 32, 32, 34, 117, 114, 108, 115, 34, 58, 32, 91, 93, 10, 125>>
    ELSE <<123, 10, 32, 32, 34, 117, 114, 108, 115, 34, 58, 32, 91, 10>>
         \o join_with([k \in 1..Len(records) |->
                          <<32, 32, 32, 32>> \o object_to_string_pretty(records[k], fields)],
                      <<44, 10>>)
         \o <<10, 32, 32, 93, 10, RBRACE>>

\* the column types "VARCHAR(2048)", "VARCHAR(32)", "VARCHAR(255)",
\* "VARCHAR(253)", "INTEGER", "INT" and "TEXT"
COLUMN_TYPE ==
    [varchar_2048 |-> <<86, 65, 82, 67, 72, 65, 82, 40, 50, 48, 52, 56, 41>>,
     varchar_32 |-> <<86, 65, 82, 67, 72, 65, 82, 40, 51, 50, 41>>,
     varchar_255 |-> <<86, 65, 82, 67, 72, 65, 82, 40, 50, 53, 53, 41>>,
     varchar_253 |-> <<86, 65, 82, 67, 72, 65, 82, 40, 50, 53, 51, 41>>,
     integer |-> <<73, 78, 84, 69, 71, 69, 82>>,
     int |-> <<73, 78, 84>>,
     text |-> <<84, 69, 88, 84>>]

get_postgres_column_type(field) ==
    CASE field = FIELD_NAME.url -> COLUMN_TYPE.varchar_2048
      [] field = FIELD_NAME.scheme -> COLUMN_TYPE.varchar_32
      [] field = FIELD_NAME.username -> COLUMN_TYPE.varchar_255
      [] field \in {FIELD_NAME.hostname, FIELD_NAME.subdomain, FIELD_NAME.domain} ->
            COLUMN_TYPE.varchar_253
      [] field = FIELD_NAME.port -> COLUMN_TYPE.integer
      [] field = FIELD_NAME.path -> COLUMN_TYPE.text
      [] field = FIELD_NAME.query -> COLUMN_TYPE.text
      [] field = FIELD_NAME.fragment -> COLUMN_TYPE.varchar_255
      [] OTHER -> COLUMN_TYPE.text

get_mysql_column_type(field) ==
    CASE field = FIELD_NAME.url -> COLUMN_TYPE.varchar_2048
      [] field = FIELD_NAME.scheme -> COLUMN_TYPE.varchar_32
      [] field = FIELD_NAME.username -> COLUMN_TYPE.varchar_255
      [] field \in {FIELD_NAME.hostname, FIELD_NAME.subdomain, FIELD_NAME.domain} ->
            COLUMN_TYPE.varchar_253
      [] field = FIELD_NAME.port -> COLUMN_TYPE.int
      [] field = FIELD_NAME.path -> COLUMN_TYPE.text
      [] field = FIELD_NAME.query -> COLUMN_TYPE.text
      [] field = FIELD_NAME.fragment -> COLUMN_TYPE.varchar_255
      [] OTHER -> COLUMN_TYPE.text

get_sqlite_column_type(field) ==
    IF field = FIELD_NAME.port THEN COLUMN_TYPE.integer ELSE COLUMN_TYPE.text

get_generic_column_type(field) ==
    IF field = FIELD_NAME.port THEN COLUMN_TYPE.integer ELSE COLUMN_TYPE.text

SqlDialects == {"Postgres", "Mysql", "Sqlite", "Generic"}

\* the literal texts of the SQL statements: "CREATE TABLE IF NOT EXISTS ",
\* "    id SERIAL PRIMARY KEY,\n", "    ",
\* "    created_at TIMESTAMP DEFAULT CURRENT_TIMESTAMP\n", "INSERT INTO ",
\* ") VALUES (" and "NULL"
SQL_TEXT ==
    [create_table |-> <<67, 82, 69, 65, 84, 69, 32, 84, 65, 66, 76, 69, 32, 73, 70, 32, 78, 79, 84, 32, 69, 88, 73, 83, 84, 83, 32>>,
     id_column |-> <<32, 32, 32, 32, 105, 100, 32, 83, 69, 82, 73, 65, 76, 32, 80, 82, 73, 77, 65, 82, 89, 32, 75, 69, 89, 44, 10>>,
     indent |-> <<32, 32, 32, 32>>,
     created_at |-> <<32, 32, 32, 32, 99, 114, 101, 97, 116, 101, 100, 95, 97, 116, 32, 84, 73, 77, 69, 83, 84, 65, 77, 80, 32, 68, 69, 70, 65, 85, 76, 84, 32, 67, 85, 82, 82, 69, 78, 84, 95, 84, 73, 77, 69, 83, 84, 65, 77, 80, 10>>,
     insert_into |-> <<73, 78, 83, 69, 82, 84, 32, 73, 78, 84, 79, 32>>,
     values |-> <<41, 32, 86, 65, 76, 85, 69, 83, 32, 40>>,
     null |-> <<78, 85, 76, 76>>]

\* the line of one field in generate_create_table: "    {field} {type},\n"
column_line(field, dialect) ==
    SQL_TEXT.indent \o field \o <<32>>
    \o (CASE dialect = "Postgres" -> get_postgres_column_type(field)
          [] dialect = "Mysql" -> get_mysql_column_type(field)
          [] dialect = "Sqlite" -> get_sqlite_column_type(field)
          [] dialect = "Generic" -> get_generic_column_type(field))
    \o <<44, 10>>

generate_create_table(table_name, fields, dialect) ==
    SQL_TEXT.create_table \o table_name \o <<32, 40, 10>>
    \o SQL_TEXT.id_column
    \o join_with([k \in 1..Len(fields) |-> column_line(fields[k], dialect)], <<>>)
    \o SQL_TEXT.created_at
    \o <<41, 59>>

generate_insert_statement(record, fields, table_name, dialect) ==
    SQL_TEXT.insert_into \o table_name \o <<32, 40>>
    \o join_with(fields, <<44, 32>>)
    \o SQL_TEXT.values
    \o join_with([k \in 1..Len(fields) |->
                     IF get_field(record, fields[k]) # None
                     THEN sql_escape(get_field(record, fields[k])[1])
                     ELSE SQL_TEXT.null],
                 <<44, 32>>)
    \o <<41, 59>>

\* the lists of records the printing functions are applied to
RecordLists == UNION {[1..n -> Records] : n \in 0..MaxRecords}

\* lists of field names: none; scheme and port; query and scheme; port
\* twice; the name "x" of no field, and query; the eight other names
FieldLists ==
    {<<>>,
     <<FIELD_NAME.scheme, FIELD_NAME.port>>,
     <<FIELD_NAME.query, FIELD_NAME.scheme>>,
     <<FIELD_NAME.port, FIELD_NAME.port>>,
     <<<<120>>, FIELD_NAME.query>>,
     <<FIELD_NAME.url, FIELD_NAME.username, FIELD_NAME.host, FIELD_NAME.hostname,
       FIELD_NAME.subdomain, FIELD_NAME.domain, FIELD_NAME.path, FIELD_NAME.fragment>>}

\* "\N" and the empty text
NullValues == {<<92, 78>>, <<>>}

\* "urls" and "t"
TableNames == {<<117, 114, 108, 115>>, <<116>>}

PrintPlainCalls ==
    [fn : {"print_plain"}, records : RecordLists, fields : FieldLists,
     null_value : NullValues, no_newline : BOOLEAN, stdout_writable : BOOLEAN]

PrintTabularCalls ==
    [fn : {"print_tabular"}, records : RecordLists, fields : FieldLists,
     header : BOOLEAN, separator : {TAB, 44}, null_value : NullValues,
     no_newline : BOOLEAN, stdout_writable : BOOLEAN]

PrintJsonCalls ==
    [fn : {"print_json"}, records : RecordLists, fields : FieldLists,
     pretty : BOOLEAN, no_newline : BOOLEAN, stdout_writable : BOOLEAN]

PrintJsonlCalls ==
    [fn : {"print_jsonl"}, records : RecordLists, fields : FieldLists,
     no_newline : BOOLEAN, stdout_writable : BOOLEAN]

PrintSqlCalls ==
    [fn : {"print_sql"}, records : RecordLists, fields : FieldLists,
     table_name : TableNames, dialect : SqlDialects, create_table : BOOLEAN,
     no_newline : BOOLEAN, stdout_writable : BOOLEAN]

\* the count of the records a printing loop has gone through
enumerate_i == IF locals = NoLocals THEN 0 ELSE locals.i

\* one turn of `for (i, record) in records.iter().enumerate()`, line being
\* the text of the record of this turn: print! when it is the last record
\* under no_newline, println! otherwise
PrintTurn(line) ==
    /\ ret = None
    /\ enumerate_i < Len(call.records)
    /\ \E printed \in {print(line,
                             ~(call.no_newline /\ enumerate_i + 1 = Len(call.records)),
                             call.stdout_writable)} :
           IF printed.panic
           THEN ret' = Some(Panicked) /\ UNCHANGED <<locals, stdout>>
           ELSE /\ stdout' = stdout \o printed.stdout
                /\ locals' = [i |-> enumerate_i + 1]
                /\ UNCHANGED ret
    /\ UNCHANGED <<input, parts, pc, pos, ranges, flags, result, call,
                   slots, reader, results, stderr>>

\* the loop has ended and the function returns value
LoopReturns(value) ==
    /\ ret = None
    /\ enumerate_i = Len(call.records)
    /\ ret' = Some(value)
    /\ UNCHANGED <<call, parserVars, batchVars>>

\* one turn of print_plain's loop
PrintPlain ==
    /\ call.fn = "print_plain"
    /\ PrintTurn(join_with(select_fields(call.records[enumerate_i + 1], call.fields,
                                         call.null_value),
                           <<32>>))

\* print_plain returns ()
PrintPlainReturn ==
    /\ call.fn = "print_plain"
    /\ LoopReturns(<<>>)

\* print_tabular begins: under header, the line of the field names
PrintTabularHeader ==
    /\ call.fn = "print_tabular"
    /\ ret = None
    /\ locals = NoLocals
    /\ IF call.header
       THEN \E printed \in {print(join_with(call.fields, <<call.separator>>), TRUE,
                                  call.stdout_writable)} :
                IF printed.panic
                THEN ret' = Some(Panicked) /\ UNCHANGED <<locals, stdout>>
                ELSE /\ stdout' = stdout \o printed.stdout
                     /\ locals' = [i |-> 0]
                     /\ UNCHANGED ret
       ELSE locals' = [i |-> 0] /\ UNCHANGED <<ret, stdout>>
    /\ UNCHANGED <<input, parts, pc, pos, ranges, flags, result, call,
                   slots, reader, results, stderr>>

\* one turn of print_tabular's loop
PrintTabular ==
    /\ call.fn = "print_tabular"
    /\ locals # NoLocals
    /\ PrintTurn(join_with(select_fields(call.records[enumerate_i + 1], call.fields,
                                         call.null_value),
                           <<call.separator>>))

\* print_tabular returns ()
PrintTabularReturn ==
    /\ call.fn = "print_tabular"
    /\ locals # NoLocals
    /\ LoopReturns(<<>>)

\* print_json: the wrapper of all records is serialized and printed in one
\* print! or println!
PrintJson ==
    /\ call.fn = "print_json"
    /\ ret = None
    /\ \E printed \in {print(IF call.pretty
                             THEN wrapper_to_string_pretty(call.records, call.fields)
                             ELSE wrapper_to_string(call.records, call.fields),
                             ~call.no_newline, call.stdout_writable)} :
           IF printed.panic
           THEN ret' = Some(Panicked) /\ UNCHANGED stdout
           ELSE stdout' = stdout \o printed.stdout /\ ret' = Some(Ok(<<>>))
    /\ UNCHANGED <<call, parserVars, slots, reader, results, stderr>>

\* one turn of print_jsonl's loop
PrintJsonl ==
    /\ call.fn = "print_jsonl"
    /\ PrintTurn(object_to_string(call.records[enumerate_i + 1], call.fields))

\* print_jsonl returns Ok(())
PrintJsonlReturn ==
    /\ call.fn = "print_jsonl"
    /\ LoopReturns(Ok(<<>>))

\* print_sql begins: without fields it returns the error; under
\* create_table it prints the CREATE TABLE statement
PrintSqlBegin ==
    /\ call.fn = "print_sql"
    /\ ret = None
    /\ locals = NoLocals
    /\ IF call.fields = <<>>
       THEN /\ ret' = Some(Err("SQL format requires at least one field to be specified"))
            /\ UNCHANGED <<locals, stdout>>
       ELSE IF call.create_table
       THEN \E printed \in {print(generate_create_table(call.table_name, call.fields,
                                                        call.dialect),
                                  TRUE, call.stdout_writable)} :
                IF printed.panic
                THEN ret' = Some(Panicked) /\ UNCHANGED <<locals, stdout>>
                ELSE /\ stdout' = stdout \o printed.stdout
                     /\ locals' = [i |-> 0]
                     /\ UNCHANGED ret
       ELSE locals' = [i |-> 0] /\ UNCHANGED <<ret, stdout>>
    /\ UNCHANGED <<input, parts, pc, pos, ranges, flags, result, call,
                   slots, reader, results, stderr>>

\* one turn of print_sql's loop
PrintSql ==
    /\ call.fn = "print_sql"
    /\ locals # NoLocals
    /\ PrintTurn(generate_insert_statement(call.records[enumerate_i + 1], call.fields,
                                           call.table_name, call.dialect))

\* print_sql returns Ok(())
PrintSqlReturn ==
    /\ call.fn = "print_sql"
    /\ locals # NoLocals
    /\ LoopReturns(Ok(<<>>))

InitRender ==
    \/ InitCall(PrintCustomCalls)
    \/ InitCall(PrintPlainCalls)
    \/ InitCall(PrintTabularCalls)
    \/ InitCall(PrintJsonCalls)
    \/ InitCall(PrintJsonlCalls)
    \/ InitCall(PrintSqlCalls)

NextRender ==
    \/ ParseTemplate
    \/ PrintRecord
    \/ PrintCustomReturn
    \/ PrintPlain
    \/ PrintPlainReturn
    \/ PrintTabularHeader
    \/ PrintTabular
    \/ PrintTabularReturn
    \/ PrintJson
    \/ PrintJsonl
    \/ PrintJsonlReturn
    \/ PrintSqlBegin
    \/ PrintSql
    \/ PrintSqlReturn

SpecRender == InitRender /\ [][NextRender]_vars

\* what the forms "{f}", "{f:d}", "{f?x}", "{f!x}" are to emit, the value and
\* the default passing through shown(_)
FieldOutput(f, record, shown(_)) ==
    CASE f.kind = "plain" ->
            IF record[f.name] # None THEN shown(record[f.name][1]) ELSE <<>>
      [] f.kind = "default" ->
            IF record[f.name] # None THEN shown(record[f.name][1]) ELSE shown(f.text)
      [] f.kind = "present" ->
            IF record[f.name] # None THEN f.text ELSE <<>>
      [] f.kind = "missing" ->
            IF record[f.name] = None THEN f.text ELSE shown(record[f.name][1])

TemplateOutput(template, record, shown(_)) ==
    template.before
    \o FieldOutput(template.field, record, shown)
    \o (IF template.after = PLACEHOLDER.scheme THEN shown(record.scheme[1])
        ELSE template.after)

\* print_custom has gone through the records it was to print, none or more,
\* and its writes reach standard output
Rendering ==
    call.fn = "print_custom" /\ locals # NoLocals /\ call.stdout_writable

RECURSIVE Flatten(_)
Flatten(texts) == IF texts = <<>> THEN <<>> ELSE Head(texts) \o Flatten(Tail(texts))

\* the text standard output is to hold once n records are printed: for each
\* the text of the template, and a line feed after each but the last record
\* of the call under no_newline
PrintedOutput(c, n, shown(_)) ==
    Flatten([k \in 1..n |->
                TemplateOutput(c.parts, c.records[k], shown)
                \o (IF c.no_newline /\ k = Len(c.records) THEN <<>> ELSE <<10>>)])

\* C21 as stated: at every point of print_custom's loop the printed text is,
\* for each record printed so far, that of the template: literal text is
\* copied; "{f}" gives the value or nothing, "{f:d}" the value or d, "{f?x}"
\* x or nothing, "{f!x}" the value or x
C21_RenderAsStated ==
    Rendering => stdout = PrintedOutput(call, locals.i, LAMBDA v : v)

\* C21 amended: the same, with the value and the default d escaped as the
\* escape mode says, literal text and the texts x not
C21_RenderEscaped ==
    Rendering => stdout = PrintedOutput(call, locals.i,
                                        LAMBDA v : escape_value(v, call.escape_mode))

\* print_custom has returned after "a}{port!x!}" on a record without a port
\* under the SQL escape mode, or after "{query:{'}}" on two records, the
\* first with a query, under the shell escape mode
C21_Witness ==
    /\ Rendering
    /\ Returned
    /\ ret[1].err = ""
    /\ ~call.no_newline
    /\ \/ /\ Len(call.records) = 1
          /\ call.parts.before # <<>>
          /\ call.parts.field = [name |-> "port", kind |-> "missing", text |-> <<120, BANG>>]
          /\ call.records[1].port = None
          /\ call.escape_mode = "Sql"
          /\ stdout = <<97, RBRACE, 120, BANG>> \o call.parts.after \o <<10>>
       \/ /\ Len(call.records) = 2
          /\ call.parts.field = [name |-> "query", kind |-> "default",
                                 text |-> <<LBRACE, QUOTE, RBRACE>>]
          /\ call.records[1].query # None
          /\ call.records[2].query = None
          /\ call.escape_mode = "Shell"
=============================================================================
